---- MODULE Spec2Model ----
(***************************************************************************)
(* A model of the CEX/DEX arbitrage bot: ArbitrageService (scan loop,      *)
(* scanner, ledger, execution orchestrator), the manual-execute HTTP       *)
(* handler, and the parts of the Binance and Uniswap adapters they call.   *)
(*                                                                         *)
(* The program is single-threaded JavaScript: an action of the model is    *)
(* one run-to-completion segment of an async function, from one await to   *)
(* the next.  Activations of async functions that are suspended at an      *)
(* await are the elements of the multiset `tasks`.                         *)
(*                                                                         *)
(* Money and prices are integers in units of 0.0001 of the quote token,    *)
(* quantities are integers in units of 0.001 of the base token, and        *)
(* profitPercentage is an integer in units of 0.001 percent.               *)
(* BasicArbitrageStrategy.calculateSpread takes prices and gas in units    *)
(* of 0.01 and fees in thousandths, and returns money in units of 0.00001. *)
(*                                                                         *)
(* Spec is the whole service.  LoopSpec follows one iteration of the loop  *)
(* after its scan, CycleSpec one loop through its iterations until it is   *)
(* stopped (with fairness), ScanSpec the scanner with its price cache and  *)
(* the clock, ApiSpec the execute requests that name an opportunity by its *)
(* timestamp, CalcSpec calls of the two profit calculators and of          *)
(* shouldExecute, RankSpec the sort of a scan's results and the scan of    *)
(* one combination, SnapshotSpec one iteration with execute requests       *)
(* arriving meanwhile, ShutdownSpec a loop and the signal handler, and     *)
(* QuantitySpec one iteration with calls of normalizeQuantity.             *)
(***************************************************************************)
EXTENDS Integers, Sequences, FiniteSets, Bags, TLC

\* ------------------------------------------------------------------ bounds
\* Live activations of runArbitrageLoop the model follows at once.
MaxLoops == 2
\* Manual execute requests in flight at once.
MaxRequests == 1

\* ----------------------------------------------------------- configuration
\* config.trading.tradingPairs, each pair already split at '-'.
tradingPairs == << <<"LINK", "USDT">> >>

\* Object.keys(config.networks), in declaration order.
networks == <<"ethereum", "arbitrum", "optimism", "polygon">>

\* config.networks[n].provider: set when the configuration module is loaded,
\* for the networks whose RPC URL the environment gives.
VARIABLE provider

\* config.trading.minimumProfitPercentage (0.5), in 0.001 percent.
minimumProfitPercentage == 500

\* this.fees.binance.taker and this.fees.uniswap.fee, in thousandths.
binanceTakerFee == 1
uniswapFee == 3

\* this.fees.gas[network] || 0.1, in 0.0001 of the quote token.
gasCostOf(network) ==
    CASE network = "ethereum" -> 200000
      [] network = "arbitrum" -> 3000
      [] network = "optimism" -> 1000
      [] network = "polygon" -> 500
      [] OTHER -> 1000

\* BinanceExchange.getSymbolFromPair: base and quote joined (the configured
\* tokens are upper case already, so toUpperCase leaves them alone).
getSymbolFromPair(base, quote) == base \o quote

Symbols == {getSymbolFromPair(tradingPairs[k][1], tradingPairs[k][2]) : k \in DOMAIN tradingPairs}

\* ------------------------------------------------------------- environment
\* What the ticker stream has stored in binance.prices[symbol]: nothing yet,
\* or a best bid and a best ask.
NoQuote == [avail |-> FALSE, bid |-> 0, ask |-> 0]
CexQuotes ==
    { NoQuote,
      [avail |-> TRUE, bid |-> 99000, ask |-> 100000],
      [avail |-> TRUE, bid |-> 103000, ask |-> 104000] }

\* What uniswap.getPrice (or the cache) yields: a price; 0 stands for the
\* null that getDexPrice returns when the adapter throws.
DexPrices == {0, 101000, 102000}

\* LOT_SIZE step sizes the exchange may report, in 0.001 of the base token.
StepSizes == {1, 300}

\* Possible contents of binance.symbolInfo after initialize(): step sizes for
\* the symbols the exchange listed at that time.
SymbolInfos ==
    UNION { [S -> StepSizes] : S \in SUBSET Symbols }

\* ------------------------------------------------------- decimal arithmetic
\* BigNumber.dividedBy rounds half away from zero at its DECIMAL_PLACES; the
\* model keeps five decimal places of the quotient (n * 100000 / d, d > 0).
\* The quotient is worked out digit by digit, as in long division: q and r
\* are the quotient and the remainder so far, k the digits still to come.
RECURSIVE quotientDigits(_, _, _, _)
quotientDigits(q, r, d, k) ==
    IF k = 0 THEN (IF 2 * r >= d THEN q + 1 ELSE q)
    ELSE quotientDigits(q * 10 + (r * 10) \div d, (r * 10) % d, d, k - 1)

dividedBy(n, d) ==
    IF n >= 0 THEN quotientDigits(n \div d, n % d, d, 5)
    ELSE 0 - quotientDigits((0 - n) \div d, (0 - n) % d, d, 5)

\* quantity (0.001 base) times price (0.0001 quote), in 0.0001 quote.
qtyTimesPrice(q, p) == (q * p) \div 1000
\* quantity (0.001) times a fee rate (thousandths), in 0.0001.
qtyTimesRate(q, r) == (q * r) \div 100
\* money (0.0001) times a fee rate (thousandths), in 0.0001.
moneyTimesRate(m, r) == (m * r) \div 1000

\* new BigNumber('1'): the scanner's fixed trade amount, in 0.001 base.
tradeAmount == 1000

\* ------------------------------------------------------------ the scanner
\* ArbitrageService.calculateProfit.
calculateProfit(direction, network, baseToken, quoteToken, buyPrice, sellPrice) ==
    LET binanceFee == IF direction = "dexToCex"
                      THEN moneyTimesRate(qtyTimesPrice(tradeAmount, sellPrice), binanceTakerFee)
                      ELSE qtyTimesRate(tradeAmount, binanceTakerFee)
        dexFee == IF direction = "dexToCex"
                  THEN qtyTimesRate(tradeAmount, uniswapFee)
                  ELSE moneyTimesRate(qtyTimesPrice(tradeAmount, sellPrice), uniswapFee)
        gasCost == gasCostOf(network)
        costToBuy == IF direction = "dexToCex"
                     THEN qtyTimesPrice(tradeAmount, buyPrice) + dexFee
                     ELSE qtyTimesPrice(tradeAmount, buyPrice) + binanceFee
        revenueFromSell == IF direction = "dexToCex"
                           THEN qtyTimesPrice(tradeAmount, sellPrice) - binanceFee
                           ELSE qtyTimesPrice(tradeAmount, sellPrice) - dexFee
        profit == revenueFromSell - costToBuy - gasCost
    IN  [ direction |-> direction,
          network |-> network,
          baseToken |-> baseToken,
          quoteToken |-> quoteToken,
          buyPrice |-> buyPrice,
          sellPrice |-> sellPrice,
          tradeAmount |-> tradeAmount,
          estimatedProfit |-> profit,
          profitPercentage |-> dividedBy(profit, costToBuy) ]

\* calculateProfit called at time t: the object it returns, with the
\* timestamp it reads from the clock.
calculateProfitAt(t, direction, network, baseToken, quoteToken, buyPrice, sellPrice) ==
    calculateProfit(direction, network, baseToken, quoteToken, buyPrice, sellPrice)
        @@ [timestamp |-> t]

\* A JavaScript number that may not be finite: the result of
\* BigNumber.dividedBy(...).multipliedBy(100).toNumber(), with the finite
\* values in units of 0.001 percent.  A quotient by zero is Infinity or
\* -Infinity by the sign of the dividend, and NaN for 0 / 0.
percentOf(n, d) ==
    IF d # 0 THEN [kind |-> "finite", value |-> dividedBy(n, d)]
    ELSE IF n > 0 THEN [kind |-> "Infinity", value |-> 0]
    ELSE IF n < 0 THEN [kind |-> "-Infinity", value |-> 0]
    ELSE [kind |-> "NaN", value |-> 0]

\* calculateSpread with a fault: each fee is taken on the trade size, not
\* on the amount of money it applies to.
calculateSpread_flatFees(buyPrice, sellPrice, options, t) ==
    LET buyCost == buyPrice * options.tradeSize * 1000
        totalBuyCost == buyCost + options.tradeSize * options.buyFee
        sellProceeds == sellPrice * options.tradeSize * 1000
        totalSellProceeds == sellProceeds - options.tradeSize * options.sellFee
        rawProfit == totalSellProceeds - totalBuyCost
        profitAfterGas == rawProfit - options.gasCost * 1000
    IN  [ direction |-> options.direction, buyPrice |-> buyPrice, sellPrice |-> sellPrice,
          buyFee |-> options.buyFee, sellFee |-> options.sellFee,
          tradeSize |-> options.tradeSize,
          totalBuyCost |-> totalBuyCost, totalSellProceeds |-> totalSellProceeds,
          gasCost |-> options.gasCost * 1000, rawProfit |-> rawProfit,
          profitAfterGas |-> profitAfterGas,
          profitPercentage |-> percentOf(profitAfterGas, totalBuyCost),
          timestamp |-> t ]

\* BasicArbitrageStrategy.calculateSpread called at time t.  Prices and the
\* gas cost are in 0.01 of the quote token, fee rates in thousandths, the
\* trade size in whole base tokens; the amounts of money of the result are
\* in 0.00001 of the quote token, where every product is exact.
calculateSpread(buyPrice, sellPrice, options, t) ==
    LET buyAmount == options.tradeSize
        buyCost == buyPrice * buyAmount * 1000
        buyFeeAmount == (buyCost * options.buyFee) \div 1000
        totalBuyCost == buyCost + buyFeeAmount
        sellProceeds == sellPrice * buyAmount * 1000
        sellFeeAmount == (sellProceeds * options.sellFee) \div 1000
        totalSellProceeds == sellProceeds - sellFeeAmount
        gasCostBN == options.gasCost * 1000
        rawProfit == totalSellProceeds - totalBuyCost
        profitAfterGas == rawProfit - gasCostBN
    IN  [ direction |-> options.direction, buyPrice |-> buyPrice, sellPrice |-> sellPrice,
          buyFee |-> options.buyFee, sellFee |-> options.sellFee,
          tradeSize |-> options.tradeSize,
          totalBuyCost |-> totalBuyCost, totalSellProceeds |-> totalSellProceeds,
          gasCost |-> gasCostBN, rawProfit |-> rawProfit,
          profitAfterGas |-> profitAfterGas,
          profitPercentage |-> percentOf(profitAfterGas, totalBuyCost),
          timestamp |-> t ]

\* retained with a fault: a result that gains nothing is kept.
retained_keepsZero(result) == result.profitPercentage >= 0

\* The retention test of findArbitrageOpportunities (profitPercentage > 0).
retained(result) == result.profitPercentage > 0

\* insertSorted with a fault: an entry is put before the entries it ties
\* with.
RECURSIVE insertSorted_unstable(_, _)
insertSorted_unstable(s, o) ==
    IF s = <<>> THEN <<o>>
    ELSE IF o.profitPercentage - Head(s).profitPercentage < 0
         THEN <<Head(s)>> \o insertSorted_unstable(Tail(s), o)
         ELSE <<o>> \o s

\* Array.prototype.sort with the comparator b.profitPercentage -
\* a.profitPercentage: a stable sort, largest first.
RECURSIVE insertSorted(_, _)
insertSorted(s, o) ==
    IF s = <<>> THEN <<o>>
    ELSE IF o.profitPercentage - Head(s).profitPercentage <= 0
         THEN <<Head(s)>> \o insertSorted(Tail(s), o)
         ELSE <<o>> \o s

RECURSIVE sortByProfit(_)
sortByProfit(s) ==
    IF s = <<>> THEN <<>>
    ELSE insertSorted(sortByProfit(SubSeq(s, 1, Len(s) - 1)), s[Len(s)])

\* pushBoth with a fault: each direction is priced on the other side of the
\* book (the dexToCex sale at the ask, the cexToDex purchase at the bid).
pushBoth_crossesBook(acc, network, pair, cexBid, cexAsk, dexPrice) ==
    LET dexToCexProfit == calculateProfit("dexToCex", network, pair[1], pair[2], dexPrice, cexAsk)
        cexToDexProfit == calculateProfit("cexToDex", network, pair[1], pair[2], cexBid, dexPrice)
        a1 == IF retained(dexToCexProfit) THEN Append(acc, dexToCexProfit) ELSE acc
    IN  IF retained(cexToDexProfit) THEN Append(a1, cexToDexProfit) ELSE a1

\* The two pushes of one pair x network combination, in the code's order.
pushBoth(acc, network, pair, cexBid, cexAsk, dexPrice) ==
    LET dexToCexProfit == calculateProfit("dexToCex", network, pair[1], pair[2], dexPrice, cexBid)
        cexToDexProfit == calculateProfit("cexToDex", network, pair[1], pair[2], cexAsk, dexPrice)
        a1 == IF retained(dexToCexProfit) THEN Append(acc, dexToCexProfit) ELSE acc
    IN  IF retained(cexToDexProfit) THEN Append(a1, cexToDexProfit) ELSE a1

\* What became of one pair x network combination in a scan: skipped for want
\* of Binance prices ("noCex") or of a DEX price ("noDex"), or computed from
\* the prices bid, ask and dex.
\* lookup: how getDexPrice came by the price, if it was called (see NoLookup).
visit(pi, ni, outcome, bid, ask, dex, lookup) ==
    [pi |-> pi, ni |-> ni, outcome |-> outcome, bid |-> bid, ask |-> ask, dex |-> dex,
     lookup |-> lookup]

\* One call of getDexPrice.  called: FALSE when the combination never got
\* that far.  live, cached: whether the cache held an unexpired entry under
\* the key when the call began, and its value.  fetched: the calls of
\* uniswap.getPrice it made.  stored, ttl: the value and the remaining life
\* of the entry under the key when the call returned.  wrote: whether the
\* call set the entry.
NoLookup ==
    [called |-> FALSE, live |-> FALSE, cached |-> 0, fetched |-> 0, stored |-> 0, ttl |-> 0,
     wrote |-> FALSE]

noBinancePrices(pi, ni) == visit(pi, ni, "noCex", 0, 0, 0, NoLookup)

\* scanAdvance with a fault: a combination without Binance prices ends the
\* pair (break) instead of the combination (continue).
RECURSIVE scanAdvance_abandonsPair(_, _, _)
scanAdvance_abandonsPair(pi, ni, px) ==
    IF pi > Len(tradingPairs)
    THEN [done |-> TRUE, pi |-> pi, ni |-> ni, bid |-> 0, ask |-> 0, skipped |-> << >>]
    ELSE IF ni > Len(networks) THEN scanAdvance_abandonsPair(pi + 1, 1, px)
    ELSE IF ~provider[networks[ni]] THEN scanAdvance_abandonsPair(pi, ni + 1, px)
    ELSE LET q == px[getSymbolFromPair(tradingPairs[pi][1], tradingPairs[pi][2])]
         IN  IF ~q.avail
             THEN [scanAdvance_abandonsPair(pi + 1, 1, px) EXCEPT
                      !.skipped = <<noBinancePrices(pi, ni)>> \o @]
             ELSE [done |-> FALSE, pi |-> pi, ni |-> ni, bid |-> q.bid, ask |-> q.ask,
                   skipped |-> << >>]

\* The synchronous run of the two for-loops of findArbitrageOpportunities
\* from combination (pi, ni) on, with binance.prices = px: it stops at the
\* first combination that has a provider and both Binance prices (there the
\* code awaits getDexPrice), or at the end of the pairs.  skipped: the
\* combinations it left for want of Binance prices on the way.
RECURSIVE scanAdvance(_, _, _)
scanAdvance(pi, ni, px) ==
    IF pi > Len(tradingPairs)
    THEN [done |-> TRUE, pi |-> pi, ni |-> ni, bid |-> 0, ask |-> 0, skipped |-> << >>]
    ELSE IF ni > Len(networks) THEN scanAdvance(pi + 1, 1, px)
    ELSE IF ~provider[networks[ni]] THEN scanAdvance(pi, ni + 1, px)
    ELSE LET q == px[getSymbolFromPair(tradingPairs[pi][1], tradingPairs[pi][2])]
         IN  IF ~q.avail
             THEN [scanAdvance(pi, ni + 1, px) EXCEPT !.skipped = <<noBinancePrices(pi, ni)>> \o @]
             ELSE [done |-> FALSE, pi |-> pi, ni |-> ni, bid |-> q.bid, ask |-> q.ask,
                   skipped |-> << >>]

\* ------------------------------------------------------ the Binance adapter
\* normalizeQuantity with a fault: the quantity is rounded to the nearest
\* multiple of the step size.
normalizeQuantity_roundsToNearest(info, symbol, quantity) ==
    IF symbol \notin DOMAIN info THEN [ok |-> FALSE, value |-> 0]
    ELSE [ok |-> TRUE,
          value |-> ((quantity + info[symbol] \div 2) \div info[symbol]) * info[symbol]]

\* BinanceExchange.normalizeQuantity with symbolInfo = info: an error for an
\* unknown symbol, else the quantity cut down to a multiple of the step size.
normalizeQuantity(info, symbol, quantity) ==
    IF symbol \notin DOMAIN info THEN [ok |-> FALSE, value |-> 0]
    ELSE [ok |-> TRUE, value |-> (quantity \div info[symbol]) * info[symbol]]

\* ------------------------------------------------ the execution orchestrator
\* A call of a venue's trade function, as the venue sees it.  unit: the
\* token the quantity is an amount of.  The quantity of a Binance market
\* order is of the base asset.  uniswap.executeTrade swaps with
\* exactInputSingle and takes its amount as the amountIn, parsed with the
\* decimals of the token it gives: the quote token for a buy, the base
\* token for a sell.
binanceOrder(side, symbol, quantity) ==
    [ venue |-> "binance", side |-> side, symbol |-> symbol, network |-> "",
      baseToken |-> "", quoteToken |-> "", quantity |-> quantity, unit |-> "base" ]

uniswapTrade(network, action, baseToken, quoteToken, amount) ==
    [ venue |-> "uniswap", side |-> action, symbol |-> "", network |-> network,
      baseToken |-> baseToken, quoteToken |-> quoteToken, quantity |-> amount,
      unit |-> IF action = "buy" THEN "quote" ELSE "base" ]

\* leg1Call with a fault: the test of the direction is inverted.
leg1Call_inverted(info, opp) ==
    LET binanceSymbol == getSymbolFromPair(opp.baseToken, opp.quoteToken)
        n == normalizeQuantity(info, binanceSymbol, opp.tradeAmount)
    IN  IF opp.direction # "dexToCex"
        THEN [ok |-> TRUE,
              call |-> uniswapTrade(opp.network, "buy", opp.baseToken, opp.quoteToken, opp.tradeAmount)]
        ELSE [ok |-> n.ok, call |-> binanceOrder("BUY", binanceSymbol, n.value)]

\* Leg 1 of executeArbitrage: the DEX buy (dexToCex), or the Binance buy of
\* the normalized quantity (otherwise); ok is FALSE when normalizeQuantity
\* throws while the arguments of executeBuy are evaluated.
leg1Call(info, opp) ==
    LET binanceSymbol == getSymbolFromPair(opp.baseToken, opp.quoteToken)
        n == normalizeQuantity(info, binanceSymbol, opp.tradeAmount)
    IN  IF opp.direction = "dexToCex"
        THEN [ok |-> TRUE,
              call |-> uniswapTrade(opp.network, "buy", opp.baseToken, opp.quoteToken, opp.tradeAmount)]
        ELSE [ok |-> n.ok, call |-> binanceOrder("BUY", binanceSymbol, n.value)]

\* Leg 2 of executeArbitrage: the Binance sell (dexToCex) or the DEX sell.
leg2Call(opp) ==
    IF opp.direction = "dexToCex"
    THEN binanceOrder("SELL", getSymbolFromPair(opp.baseToken, opp.quoteToken), opp.tradeAmount)
    ELSE uniswapTrade(opp.network, "sell", opp.baseToken, opp.quoteToken, opp.tradeAmount)

NoOpp ==
    [ direction |-> "", network |-> "", baseToken |-> "", quoteToken |-> "",
      buyPrice |-> 0, sellPrice |-> 0, tradeAmount |-> 0, estimatedProfit |-> 0,
      profitPercentage |-> 0 ]

\* One activation of executeArbitrage.  pc: where it is suspended ("leg1",
\* "leg2": awaiting that venue call), or how it ended ("returned" with
\* value, or "threw").  calls: the venue trade calls it has made.  path: the
\* stages it went through.  r1, r2: how the venue call of each leg settled
\* ("none" while it has not, "ok", "error").  tx: the state on chain of the
\* swap transaction sent by the DEX buy of leg 1 ("none", "pending",
\* "mined").
NoExec ==
    [ opp |-> NoOpp, pc |-> "none", value |-> FALSE, calls |-> <<>>, path |-> <<>>,
      r1 |-> "none", r2 |-> "none", tx |-> "none" ]

failedStage(pc) ==
    CASE pc = "leg1" -> "Failed(Leg1)"
      [] pc = "leg2" -> "Failed(Leg2)"
      [] OTHER -> "Failed"

\* executeCatch with a fault: the error is thrown on to the caller.
executeCatch_rethrows(ex) ==
    [ex EXCEPT !.pc = "threw", !.path = Append(@, failedStage(ex.pc))]

\* The catch block of executeArbitrage: log, return false.
executeCatch(ex) ==
    [ex EXCEPT !.pc = "returned", !.value = FALSE, !.path = Append(@, failedStage(ex.pc))]

\* executeArbitrage from its entry to its first await.
executeStart(info, opp) ==
    LET ex0 == [NoExec EXCEPT !.opp = opp, !.pc = "start", !.path = <<"Idle">>]
        c == leg1Call(info, opp)
    IN  IF c.ok
        THEN [ex0 EXCEPT !.pc = "leg1", !.calls = <<c.call>>, !.path = Append(@, "Leg1Submitted")]
        ELSE executeCatch(ex0)

\* onLeg1Result with a fault: a failed leg 1 does not stop the execution.
onLeg1Result_ignoresFailure(ex, ok) ==
    [ex EXCEPT !.pc = "leg2",
               !.calls = Append(@, leg2Call(ex.opp)),
               !.path = Append(@, "Leg2Submitted"),
               !.tx = IF ex.opp.direction = "dexToCex" THEN "pending" ELSE @]

\* executeArbitrage resumed when leg 1 settles: the adapter returned (ok) or
\* threw.  uniswap.executeTrade returns as soon as the router call has sent
\* the swap transaction, so after a DEX buy the transaction is pending.
onLeg1Result(ex, ok) ==
    IF ok
    THEN [ex EXCEPT !.pc = "leg2",
                    !.calls = Append(@, leg2Call(ex.opp)),
                    !.path = Append(@, "Leg2Submitted"),
                    !.tx = IF ex.opp.direction = "dexToCex" THEN "pending" ELSE @]
    ELSE executeCatch(ex)

\* onLeg2Result with a fault: a failed leg 2 is followed by a trade that
\* reverses leg 1.
onLeg2Result_rollsBack(ex, ok) ==
    IF ok
    THEN [ex EXCEPT !.pc = "returned", !.value = TRUE, !.path = Append(@, "Settled")]
    ELSE [ex EXCEPT !.pc = "returned", !.value = FALSE,
                    !.calls = Append(@, [ex.calls[1] EXCEPT
                                            !.side = IF ex.calls[1].venue = "binance" THEN "SELL" ELSE "sell"]),
                    !.path = Append(@, "Failed(Leg2)")]

\* executeArbitrage resumed when leg 2 settles.
onLeg2Result(ex, ok) ==
    IF ok
    THEN [ex EXCEPT !.pc = "returned", !.value = TRUE, !.path = Append(@, "Settled")]
    ELSE executeCatch(ex)

\* ------------------------------------------------------------------- state
VARIABLES
    initialized,     \* ArbitrageService.initialized
    running,         \* ArbitrageService.running
    symbolInfo,      \* BinanceExchange.symbolInfo: symbol -> step size
    opportunities,   \* ArbitrageService.opportunities, the ledger
    tasks,           \* the suspended activations (a bag)
    cache,           \* ArbitrageService.cache (NodeCache): key -> [value, t]
    now,             \* the clock (Date.now), in seconds
    last,            \* the scan that completed last: what it returned and visited
    spreads,         \* the calls of the profit calculators made so far
    ranked,          \* the last call of the ranking sort: its input and output
    adapters,        \* binance.exchangeInfo is set, uniswap.initialized
    started,         \* how the last call of start() ended
    refused,         \* the last execute request answered 400 or 404
    exit             \* whether the process has exited, and what it left undone

\* The state only the scanner and its cache use, and the state only the
\* calculators' callers use.
scanState == <<provider, cache, now, last>>
calcState == <<spreads, ranked>>

\* The state of the adapters and of the service's callers: main() and the
\* HTTP handlers.
hostState == <<adapters, started, refused, exit>>

vars == <<initialized, running, symbolInfo, opportunities, tasks, scanState, calcState, hostState>>

\* The opportunityId of the body of an execute request, as JSON gives it: a
\* string or a number with its characters, or undefined when the body has
\* none.
NoId == [type |-> "undefined", text |-> << >>]

\* An activation: a run of runArbitrageLoop (kind "loop") or of the
\* POST /api/opportunities/execute handler (kind "execute").  pc: the await
\* it is suspended at ("dexPrice": getDexPrice inside the scan; "exec":
\* executeArbitrage; "sleep", "backoff": the two timers).  pi, ni, bid, ask,
\* acc: the scan's position, the Binance prices it read and its local
\* opportunities array.  opps, i: the array the for-of loop walks and its
\* position.  ex: the executeArbitrage activation it awaits.  log: the
\* opportunities the for-of loop has handed to executeArbitrage.  trail: the
\* combinations the scan has been through.  lookup: the call of getDexPrice
\* it is suspended in.  iter: the parity of the number of iterations of the
\* while loop it has begun after the first, where they are counted (see
\* NextIteration).  body: the opportunityId an execute request came with.
\* ref: the ledger entry its sender took the id from, if any.  failed: the
\* stages at which the executions of log that returned false had failed.
NoTask ==
    [ kind |-> "", pc |-> "", pi |-> 0, ni |-> 0, bid |-> 0, ask |-> 0,
      acc |-> <<>>, opps |-> <<>>, i |-> 0, ex |-> NoExec,
      log |-> <<>>, trail |-> <<>>, lookup |-> NoLookup, iter |-> 0,
      body |-> NoId, ref |-> NoOpp, failed |-> <<>> ]

\* The scan that completed last: what the ledger held before it, what it
\* returned and the combinations it went through; any is FALSE while no scan
\* has completed.
NoScan == [any |-> FALSE, before |-> << >>, ret |-> << >>, trail |-> << >>]

\* new NodeCache(): no keys.
EmptyCache == [key \in {} |-> [v |-> 0, t |-> 0]]

\* Before the ranking sort has been called.  in, out: the array given to the
\* sort and the array it left; bid, ask, dex: the prices of the combination
\* the array was computed from (0 when it was not computed from one).
NoRanking == [in |-> << >>, out |-> << >>, bid |-> 0, ask |-> 0, dex |-> 0]

\* Neither adapter has been initialized; both have.
NoAdapters == [binance |-> FALSE, uniswap |-> FALSE]
BothAdapters == [binance |-> TRUE, uniswap |-> TRUE]

\* No execute request has been refused yet.
NoRefusal == [status |-> 0, body |-> NoId]

\* The process is alive.  Once it has exited, cut holds the activations
\* that were suspended at an await when it did.
NotExited == [exited |-> FALSE, cut |-> EmptyBag]

\* The deployment the model follows: an RPC URL is configured for polygon only.
PolygonOnly == [n \in {"ethereum", "arbitrum", "optimism", "polygon"} |-> n = "polygon"]

NumTasks(kind) ==
    BagCardinality([t \in {u \in BagToSet(tasks) : u.kind = kind} |-> tasks[t]])

Replace(old, new) == (tasks (-) SetToBag({old})) (+) SetToBag({new})

\* forOpportunities with a fault: the comparison with the threshold is not
\* strict.
RECURSIVE forOpportunities_inclusive(_, _, _, _)
forOpportunities_inclusive(info, t, opps, i) ==
    IF i > Len(opps)
    THEN [NoTask EXCEPT !.kind = t.kind, !.pc = "sleep", !.opps = opps, !.log = t.log]
    ELSE IF opps[i].profitPercentage >= minimumProfitPercentage
         THEN [NoTask EXCEPT !.kind = t.kind, !.pc = "exec", !.opps = opps, !.i = i,
                             !.ex = executeStart(info, opps[i]),
                             !.log = Append(t.log, opps[i])]
         ELSE forOpportunities_inclusive(info, t, opps, i + 1)

\* The for-of loop of runArbitrageLoop from position i on, up to its next
\* await: the next opportunity above the threshold is executed, or, at the
\* end of the array, the loop sleeps the normal interval.
RECURSIVE forOpportunities(_, _, _, _)
forOpportunities(info, t, opps, i) ==
    IF i > Len(opps)
    THEN [NoTask EXCEPT !.kind = t.kind, !.pc = "sleep", !.opps = opps, !.log = t.log]
    ELSE IF opps[i].profitPercentage > minimumProfitPercentage
         THEN [NoTask EXCEPT !.kind = t.kind, !.pc = "exec", !.opps = opps, !.i = i,
                             !.ex = executeStart(info, opps[i]),
                             !.log = Append(t.log, opps[i])]
         ELSE forOpportunities(info, t, opps, i + 1)

\* resumeAfterExecute with a fault: after an execution that failed the
\* for-of loop is left, and the rest of the array is not executed.
resumeAfterExecute_breaksOnFailure(info, t) ==
    IF t.ex.pc = "threw"
    THEN [NoTask EXCEPT !.kind = "loop", !.pc = "backoff"]
    ELSE IF ~t.ex.value
    THEN [NoTask EXCEPT !.kind = t.kind, !.pc = "sleep", !.opps = t.opps, !.log = t.log]
    ELSE forOpportunities(info, t, t.opps, t.i + 1)

\* resumeAfterExecute with a fault: an execution that failed ends the loop.
resumeAfterExecute_endsOnFailure(info, t) ==
    IF t.ex.pc = "threw" \/ ~t.ex.value
    THEN [NoTask EXCEPT !.kind = "loop", !.pc = "ended"]
    ELSE forOpportunities(info, t, t.opps, t.i + 1)

\* runArbitrageLoop from the point where `await this.executeArbitrage(opp)`
\* settles: the for-of loop goes on whatever value was returned, or, had the
\* call thrown, the catch block sleeps the error interval.
resumeAfterExecute(info, t) ==
    IF t.ex.pc = "threw"
    THEN [NoTask EXCEPT !.kind = "loop", !.pc = "backoff"]
    ELSE forOpportunities(info, t, t.opps, t.i + 1)

\* findArbitrageOpportunities continued from combination (pi, ni) with the
\* local array acc, up to its next await or, when the pairs are exhausted,
\* through the sort, the assignment to this.opportunities (ledger) and, for
\* the loop, the for-of loop that follows the scan.
scanFrom(info, t, pi, ni, acc, px) ==
    LET a == scanAdvance(pi, ni, px)
        sorted == sortByProfit(acc)
    IN  IF a.done
        THEN [done |-> TRUE, ledger |-> sorted,
              task |-> forOpportunities(info, [NoTask EXCEPT !.kind = t.kind], sorted, 1)]
        ELSE [done |-> FALSE, ledger |-> <<>>,
              task |-> [NoTask EXCEPT !.kind = t.kind, !.pc = "dexPrice", !.pi = a.pi, !.ni = a.ni,
                                      !.bid = a.bid, !.ask = a.ask, !.acc = acc]]

\* ----------------------------------------------------------------- actions
Init ==
    /\ initialized = FALSE
    /\ running = FALSE
    /\ symbolInfo = << >>
    /\ opportunities = << >>
    /\ tasks = EmptyBag
    /\ provider = PolygonOnly
    /\ cache = EmptyCache
    /\ now = 0
    /\ last = NoScan
    /\ spreads = << >>
    /\ ranked = NoRanking
    /\ adapters = NoAdapters
    /\ started = "none"
    /\ refused = NoRefusal
    /\ exit = NotExited

\* ArbitrageService.initialize: both adapters are initialized in turn;
\* binance.initialize fills symbolInfo from the exchange info it fetched, and
\* an adapter that initialized once stays so.
Initialize ==
    /\ ~initialized
    /\ \E binanceInitialized \in BOOLEAN, uniswapInitialized \in BOOLEAN, info \in SymbolInfos :
         /\ symbolInfo' = IF binanceInitialized
                          THEN [s \in DOMAIN symbolInfo \cup DOMAIN info |->
                                   IF s \in DOMAIN info THEN info[s] ELSE symbolInfo[s]]
                          ELSE symbolInfo
         /\ adapters' = [binance |-> adapters.binance \/ binanceInitialized,
                          uniswap |-> adapters.uniswap \/ uniswapInitialized]
         /\ initialized' = (binanceInitialized /\ uniswapInitialized)
    /\ UNCHANGED <<scanState, calcState, started, refused, exit, running, opportunities, tasks>>

\* StartUninitialized with a fault: start() does not test this.initialized.
StartUninitialized_runsAnyway ==
    /\ ~initialized
    /\ ~running
    /\ running' = TRUE
    /\ started' = "ok"
    /\ UNCHANGED <<adapters, refused, exit, scanState, calcState, initialized, symbolInfo,
                   opportunities, tasks>>

\* ArbitrageService.start, with the part of runArbitrageLoop that runs inside
\* the call: the first test of this.running and the scan up to its first
\* await.
Start ==
    /\ initialized
    /\ ~running
    /\ NumTasks("loop") < MaxLoops
    /\ running' = TRUE
    /\ \E px \in [Symbols -> CexQuotes] :
         LET step == scanFrom(symbolInfo, [NoTask EXCEPT !.kind = "loop"], 1, 1, << >>, px)
         IN  /\ tasks' = tasks (+) SetToBag({step.task})
             /\ opportunities' = IF step.done THEN step.ledger ELSE opportunities
    /\ started' = "ok"
    /\ UNCHANGED <<adapters, refused, exit, scanState, calcState, initialized, symbolInfo>>

\* ArbitrageService.start called before initialize() has succeeded: it
\* throws, and main() ends the process.
StartUninitialized ==
    /\ ~initialized
    /\ started' = "threw"
    /\ UNCHANGED <<adapters, refused, exit, scanState, calcState, initialized, running, symbolInfo,
                   opportunities, tasks>>

\* Stop with a fault: the activations in flight are abandoned.
Stop_abandonsActivations ==
    /\ running
    /\ running' = FALSE
    /\ tasks' = EmptyBag
    /\ UNCHANGED <<hostState, scanState, calcState, initialized, symbolInfo, opportunities>>

\* ArbitrageService.stop.
Stop ==
    /\ running
    /\ running' = FALSE
    /\ UNCHANGED <<hostState, scanState, calcState, initialized, symbolInfo, opportunities, tasks>>

\* A timer of runArbitrageLoop fires: the while condition is tested again,
\* and the loop ends or scans again.
LoopWake ==
    \E t \in BagToSet(tasks) :
        /\ t.kind = "loop"
        /\ t.pc \in {"sleep", "backoff"}
        /\ IF ~running
           THEN /\ tasks' = tasks (-) SetToBag({t})
                /\ UNCHANGED opportunities
           ELSE \E px \in [Symbols -> CexQuotes] :
                  LET step == scanFrom(symbolInfo, t, 1, 1, << >>, px)
                  IN  /\ tasks' = Replace(t, [step.task EXCEPT !.iter = t.iter])
                      /\ opportunities' = IF step.done THEN step.ledger ELSE opportunities
        /\ UNCHANGED <<hostState, scanState, calcState, initialized, running, symbolInfo>>

\* getDexPrice settles for the combination the scan waits on: with a price,
\* or with null (0) when the adapter threw.
DexPriceReturn ==
    \E t \in BagToSet(tasks) :
        /\ t.pc = "dexPrice"
        /\ \E dexPrice \in DexPrices, px \in [Symbols -> CexQuotes] :
             LET acc == IF dexPrice = 0 THEN t.acc
                        ELSE pushBoth(t.acc, networks[t.ni], tradingPairs[t.pi], t.bid, t.ask, dexPrice)
                 step == scanFrom(symbolInfo, t, t.pi, t.ni + 1, acc, px)
             IN  /\ tasks' = Replace(t, [step.task EXCEPT !.iter = t.iter])
                 /\ opportunities' = IF step.done THEN step.ledger ELSE opportunities
        /\ UNCHANGED <<hostState, scanState, calcState, initialized, running, symbolInfo>>

\* The venue call of leg 1 settles.
Leg1Return ==
    \E t \in BagToSet(tasks) :
        /\ t.pc = "exec"
        /\ t.ex.pc = "leg1"
        /\ \E ok \in BOOLEAN :
             tasks' = Replace(t, [t EXCEPT !.ex = [onLeg1Result(t.ex, ok) EXCEPT
                                                     !.r1 = IF ok THEN "ok" ELSE "error"]])
        /\ UNCHANGED <<hostState, scanState, calcState, initialized, running, symbolInfo, opportunities>>

\* The venue call of leg 2 settles.
Leg2Return ==
    \E t \in BagToSet(tasks) :
        /\ t.pc = "exec"
        /\ t.ex.pc = "leg2"
        /\ \E ok \in BOOLEAN :
             tasks' = Replace(t, [t EXCEPT !.ex = [onLeg2Result(t.ex, ok) EXCEPT
                                                     !.r2 = IF ok THEN "ok" ELSE "error"]])
        /\ UNCHANGED <<hostState, scanState, calcState, initialized, running, symbolInfo, opportunities>>

\* The chain mines the swap transaction that an execution's DEX buy sent.
MineTx ==
    \E t \in BagToSet(tasks) :
        /\ t.ex.tx = "pending"
        /\ tasks' = Replace(t, [t EXCEPT !.ex.tx = "mined"])
        /\ UNCHANGED <<hostState, scanState, calcState, initialized, running, symbolInfo, opportunities>>

\* runArbitrageLoop resumes after `await this.executeArbitrage(opp)`: the
\* for-of loop goes on, or, had the call thrown, the catch block sleeps the
\* error interval.
LoopResume ==
    \E t \in BagToSet(tasks) :
        /\ t.kind = "loop"
        /\ t.pc = "exec"
        /\ t.ex.pc \in {"returned", "threw"}
        /\ tasks' = Replace(t, [resumeAfterExecute(symbolInfo, t) EXCEPT
                                   !.iter = t.iter,
                                   !.failed = IF t.ex.value THEN t.failed
                                              ELSE Append(t.failed, t.ex.path[Len(t.ex.path)])])
        /\ UNCHANGED <<hostState, scanState, calcState, initialized, running, symbolInfo, opportunities>>

\* POST /api/opportunities/execute with an opportunityId that find() matches
\* to entry k of the ledger, up to the await of executeArbitrage.  (A request
\* without an id, or with one that matches nothing, is answered 400 or 404
\* and changes no state; HttpExecuteById follows the ids.)
HttpExecute ==
    /\ NumTasks("execute") < MaxRequests
    /\ \E k \in DOMAIN opportunities :
         tasks' = tasks (+) SetToBag({[NoTask EXCEPT !.kind = "execute", !.pc = "exec",
                                                      !.ex = executeStart(symbolInfo, opportunities[k])]})
    /\ UNCHANGED <<hostState, scanState, calcState, initialized, running, symbolInfo, opportunities>>

\* The handler resumes after executeArbitrage and answers the request.
HttpRespond ==
    \E t \in BagToSet(tasks) :
        /\ t.kind = "execute"
        /\ t.pc = "exec"
        /\ t.ex.pc \in {"returned", "threw"}
        /\ tasks' = tasks (-) SetToBag({t})
        /\ UNCHANGED <<hostState, scanState, calcState, initialized, running, symbolInfo, opportunities>>

Next ==
    \/ Initialize
    \/ Start
    \/ StartUninitialized
    \/ Stop
    \/ LoopWake
    \/ DexPriceReturn
    \/ Leg1Return
    \/ Leg2Return
    \/ MineTx
    \/ LoopResume
    \/ HttpExecute
    \/ HttpRespond

Spec == Init /\ [][Next]_vars

\* ------------------------------------------------------------ scan results
\* A deployment with RPC URLs for optimism and polygon.
OptimismAndPolygon ==
    [n \in {"ethereum", "arbitrum", "optimism", "polygon"} |-> n \in {"optimism", "polygon"}]

\* Binance quotes and Uniswap prices for the iteration; with the ask 3.7190
\* a DEX price of 3.8 on polygon gives a profit of 0.0186 on a cost of 3.72,
\* which is the threshold of 0.5 percent exactly.
LoopCexQuotes ==
    { [avail |-> TRUE, bid |-> 37100, ask |-> 37190],
      [avail |-> TRUE, bid |-> 40000, ask |-> 40100] }
LoopDexPrices == {38000, 39000}

\* The local array of findArbitrageOpportunities after the combinations of
\* trail, starting from acc: two pushes for each one that was computed.
RECURSIVE pushVisits(_, _)
pushVisits(acc, trail) ==
    IF trail = << >> THEN acc
    ELSE LET v == Head(trail)
             a1 == IF v.outcome = "computed"
                   THEN pushBoth(acc, networks[v.ni], tradingPairs[v.pi], v.bid, v.ask, v.dex)
                   ELSE acc
         IN  pushVisits(a1, Tail(trail))

\* What findArbitrageOpportunities returns after the combinations of trail.
opportunitiesOf(trail) == sortByProfit(pushVisits(<< >>, trail))

\* ---------------------------------------------- the scanner and its cache
\* Scans in flight at once, and the last time the clock reaches.
MaxScans == 2
MaxTime == 61

\* new NodeCache({ stdTTL: 60 }): the life of an entry, in seconds.
stdTTL == 60

\* The time that passes between two steps of the program, in seconds.
ClockSteps == {60, 61}

\* Binance quotes and Uniswap prices for the scans: an ask of 100.00, and
\* DEX prices of 101.00 and 102.00 (0: uniswap.getPrice throws).
ScanCexQuotes ==
    { NoQuote,
      [avail |-> TRUE, bid |-> 995000, ask |-> 1000000] }
ScanDexPrices == {0, 1010000, 1020000}

\* The cache key of getDexPrice.
cacheKey(network, baseToken, quoteToken) ==
    "dexPrice:" \o network \o ":" \o baseToken \o "-" \o quoteToken

\* NodeCache.get at time t: the value of an entry that has not expired, else
\* undefined (0).
cacheGet(c, key, t) ==
    IF key \in DOMAIN c /\ c[key].t >= t THEN c[key].v ELSE 0

\* NodeCache.set at time t: the entry lives stdTTL seconds from then.
cacheSet(c, key, value, t) ==
    [k \in DOMAIN c \cup {key} |-> IF k = key THEN [v |-> value, t |-> t + stdTTL] ELSE c[k]]

\* getDexPriceCached with a fault: the cache is never consulted.
getDexPriceCached_alwaysFetches(c, key, t) == [hit |-> FALSE, price |-> 0]

\* The first half of getDexPrice: the cached price is returned when there
\* is one (hit); otherwise the adapter is asked.
getDexPriceCached(c, key, t) ==
    LET cachedPrice == cacheGet(c, key, t)
    IN  [hit |-> cachedPrice # 0, price |-> cachedPrice]

\* The second half of getDexPrice, after uniswap.getPrice returned price.
storePrice(c, key, price, t) == cacheSet(c, key, price, t)

\* getDexPriceSettled with a fault: the adapter's error is thrown on to the
\* scan.
getDexPriceSettled_rethrows(c, key, price, t) ==
    IF price = 0 THEN [threw |-> TRUE, cache |-> c, price |-> 0, wrote |-> FALSE]
    ELSE [threw |-> FALSE, cache |-> storePrice(c, key, price, t), price |-> price,
          wrote |-> TRUE]

\* getDexPrice from the point where uniswap.getPrice settles, with a price
\* or with an error (0): the price is cached and returned, or the error is
\* caught and null (0) is returned with the cache as it was.
getDexPriceSettled(c, key, price, t) ==
    IF price = 0 THEN [threw |-> FALSE, cache |-> c, price |-> 0, wrote |-> FALSE]
    ELSE [threw |-> FALSE, cache |-> storePrice(c, key, price, t), price |-> price,
          wrote |-> TRUE]

\* What a getDexPrice call that began at time t with cache c, for key, found
\* and left: see NoLookup.
lookupAt(c, key, t, fetched) ==
    LET live == key \in DOMAIN c /\ c[key].t >= t
    IN  [called |-> TRUE, live |-> live, cached |-> IF live THEN c[key].v ELSE 0,
         fetched |-> fetched,
         stored |-> IF key \in DOMAIN c THEN c[key].v ELSE 0,
         ttl |-> IF key \in DOMAIN c THEN c[key].t - t ELSE 0,
         wrote |-> FALSE]

\* findArbitrageOpportunities from combination (pi, ni) on, with the local
\* array acc, binance.prices = px and the cache c at time t, up to its next
\* await that suspends (uniswap.getPrice inside getDexPrice, on a cache
\* miss) or to its end.
RECURSIVE findFrom(_, _, _, _, _, _, _, _)
findFrom(kind, pi, ni, acc, trail, px, c, t) ==
    LET a == scanAdvance(pi, ni, px)
        trail1 == trail \o a.skipped
    IN  IF a.done
        THEN [done |-> TRUE, ret |-> sortByProfit(acc), trail |-> trail1, task |-> NoTask]
        ELSE LET key == cacheKey(networks[a.ni], tradingPairs[a.pi][1], tradingPairs[a.pi][2])
                 g == getDexPriceCached(c, key, t)
             IN  IF g.hit
                 THEN findFrom(kind, a.pi, a.ni + 1,
                               pushBoth(acc, networks[a.ni], tradingPairs[a.pi], a.bid, a.ask, g.price),
                               Append(trail1, visit(a.pi, a.ni, "computed", a.bid, a.ask, g.price,
                                                    lookupAt(c, key, t, 0))),
                               px, c, t)
                 ELSE [done |-> FALSE, ret |-> << >>, trail |-> << >>,
                       task |-> [NoTask EXCEPT !.kind = kind, !.pc = "getPrice",
                                               !.pi = a.pi, !.ni = a.ni, !.bid = a.bid, !.ask = a.ask,
                                               !.acc = acc, !.trail = trail1,
                                               !.lookup = lookupAt(c, key, t, 1)]]

\* replaceLedger with a fault: the result is merged into the old ledger.
replaceLedger_merges(step, ledger) ==
    IF step.done THEN sortByProfit(ledger \o step.ret) ELSE ledger

\* replaceLedger with a fault: the array is published while it is built.
replaceLedger_publishesPartial(step, ledger) ==
    IF step.done THEN step.ret ELSE step.task.acc

\* this.opportunities after a segment of findArbitrageOpportunities: the
\* assignment at its end is the only write.
replaceLedger(step, ledger) ==
    IF step.done THEN step.ret ELSE ledger

\* The record of the scan that completed in this segment, if one did.
lastAfter(step, ledger, old) ==
    IF step.done
    THEN [any |-> TRUE, before |-> ledger, ret |-> step.ret, trail |-> step.trail]
    ELSE old

\* The service is initialized and stopped; scans are started over HTTP.
ScanInit ==
    /\ initialized = TRUE
    /\ running = FALSE
    /\ symbolInfo = [s \in Symbols |-> 1]
    /\ opportunities = << >>
    /\ tasks = EmptyBag
    /\ provider = OptimismAndPolygon
    /\ cache = EmptyCache
    /\ now = 0
    /\ last = NoScan
    /\ spreads = << >>
    /\ ranked = NoRanking
    /\ adapters = BothAdapters
    /\ started = "none"
    /\ refused = NoRefusal
    /\ exit = NotExited

\* POST /api/opportunities/find: findArbitrageOpportunities is called and
\* runs to its first suspension or, if it meets none, to its end (and the
\* handler answers).
HttpFind ==
    /\ NumTasks("find") < MaxScans
    /\ \E px \in [Symbols -> ScanCexQuotes] :
         LET step == findFrom("find", 1, 1, << >>, << >>, px, cache, now)
         IN  /\ tasks' = IF step.done THEN tasks ELSE tasks (+) SetToBag({step.task})
             /\ opportunities' = replaceLedger(step, opportunities)
             /\ last' = lastAfter(step, opportunities, last)
    /\ UNCHANGED <<initialized, running, symbolInfo, provider, cache, now, calcState, hostState>>

\* uniswap.getPrice settles for a scan suspended in getDexPrice: with a
\* price, which is cached and returned, or with an error (0), for which
\* getDexPrice returns null; the scan goes on with the next combination.
\* (Had getDexPrice thrown, the catch around the pair's body would have
\* sent the scan on to the next pair.)
GetPriceReturn ==
    \E t \in BagToSet(tasks) :
        /\ t.pc = "getPrice"
        /\ \E price \in ScanDexPrices, px \in [Symbols -> ScanCexQuotes] :
             LET key == cacheKey(networks[t.ni], tradingPairs[t.pi][1], tradingPairs[t.pi][2])
                 g == getDexPriceSettled(cache, key, price, now)
                 c1 == g.cache
                 look == [lookupAt(c1, key, now, t.lookup.fetched) EXCEPT
                             !.live = t.lookup.live, !.cached = t.lookup.cached,
                             !.wrote = g.wrote]
                 v == visit(t.pi, t.ni,
                            IF g.threw THEN "threw" ELSE IF g.price = 0 THEN "noDex" ELSE "computed",
                            t.bid, t.ask, g.price, look)
                 acc == IF g.price = 0 THEN t.acc
                        ELSE pushBoth(t.acc, networks[t.ni], tradingPairs[t.pi], t.bid, t.ask, g.price)
                 step == IF g.threw
                         THEN findFrom(t.kind, t.pi + 1, 1, acc, Append(t.trail, v), px, c1, now)
                         ELSE findFrom(t.kind, t.pi, t.ni + 1, acc, Append(t.trail, v), px, c1, now)
             IN  /\ cache' = c1
                 /\ tasks' = IF step.done THEN tasks (-) SetToBag({t}) ELSE Replace(t, step.task)
                 /\ opportunities' = replaceLedger(step, opportunities)
                 /\ last' = lastAfter(step, opportunities, last)
        /\ UNCHANGED <<initialized, running, symbolInfo, provider, now, calcState, hostState>>

\* Time passes.
Tick ==
    /\ \E d \in ClockSteps :
         /\ now + d <= MaxTime
         /\ now' = now + d
    /\ UNCHANGED <<initialized, running, symbolInfo, opportunities, tasks, provider, cache,
                   last, calcState, hostState>>

ScanNext ==
    \/ HttpFind
    \/ GetPriceReturn
    \/ Tick

ScanSpec == ScanInit /\ [][ScanNext]_vars

\* -------------------------------------------------- the profit calculators
\* Calls of the calculators the model follows.
MaxCalls == 2

\* Buy and sell prices for calculateSpread, in 0.01: a gain, a loss, and a
\* buy price of 0 with and without a sell price.
SpreadPrices == { <<10, 12>>, <<11, 10>>, <<0, 12>>, <<0, 0>> }

\* The options evaluateArbitrageOpportunities passes for the two
\* directions (fee rates in thousandths), with trade sizes and gas costs.
SpreadOptions ==
    { [direction |-> dir, buyFee |-> IF dir = "cexToDex" THEN 1 ELSE 3,
       sellFee |-> IF dir = "cexToDex" THEN 3 ELSE 1, gasCost |-> g, tradeSize |-> n] :
         dir \in {"cexToDex", "dexToCex"}, g \in {0, 1}, n \in {1, 2} }

\* Arguments for calculateProfit: a direction, with a buy and a sell price.
ProfitArgs ==
    { [direction |-> dir, network |-> net, baseToken |-> "LINK", quoteToken |-> "USDT",
       buyPrice |-> 100000, sellPrice |-> sell] :
         dir \in {"cexToDex", "dexToCex"}, net \in {"polygon"}, sell \in {101000, 102000} }

\* Whether the JavaScript number pp (see percentOf) is less than the finite
\* number x: every comparison with NaN is false.
numberLessThan(pp, x) ==
    \/ pp.kind = "-Infinity"
    \/ pp.kind = "finite" /\ pp.value < x

\* BasicArbitrageStrategy.shouldExecute with minProfitPercentage taken from
\* the configuration.  given: whether an opportunity object was passed.
shouldExecute(candidate) ==
    IF ~candidate.given
          \/ numberLessThan(candidate.opp.profitPercentage, minimumProfitPercentage)
    THEN FALSE
    ELSE IF candidate.opp.profitAfterGas < candidate.opp.gasCost * 3
    THEN FALSE
    ELSE TRUE

\* Opportunities handed to shouldExecute: none, and results of
\* calculateSpread without fees: a profit of 0.50 on a cost of 100.00 (the
\* threshold exactly, with a gas cost of 0.05), a cent more and a cent less,
\* profits of 0.15 and 0.14 on a cost of 1.00 (three times the gas cost, and
\* less), and prices of 0.
ExecutePrices ==
    { <<10000, 10055>>, <<10000, 10056>>, <<10000, 10054>>, <<100, 120>>, <<100, 119>>, <<0, 0>> }

ExecuteCandidates ==
    { [given |-> FALSE, opp |-> calculateSpread(0, 0, [direction |-> "cexToDex", buyFee |-> 0,
                                                        sellFee |-> 0, gasCost |-> 0,
                                                        tradeSize |-> 1], 0)] }
        \cup { [given |-> TRUE,
                opp |-> calculateSpread(p[1], p[2], [direction |-> "cexToDex", buyFee |-> 0,
                                                     sellFee |-> 0, gasCost |-> g,
                                                     tradeSize |-> 1], 0)] :
                   p \in ExecutePrices, g \in {0, 5} }

\* No calculator has been called; the clock runs.
CalcInit ==
    /\ initialized = FALSE
    /\ running = FALSE
    /\ symbolInfo = << >>
    /\ opportunities = << >>
    /\ tasks = EmptyBag
    /\ provider = PolygonOnly
    /\ cache = EmptyCache
    /\ now = 0
    /\ last = NoScan
    /\ spreads = << >>
    /\ ranked = NoRanking
    /\ adapters = NoAdapters
    /\ started = "none"
    /\ refused = NoRefusal
    /\ exit = NotExited

\* A call of BasicArbitrageStrategy.calculateSpread.
CallCalculateSpread ==
    /\ Len(spreads) < MaxCalls
    /\ \E prices \in SpreadPrices, options \in SpreadOptions :
         spreads' = Append(spreads,
                           [fn |-> "calculateSpread",
                            args |-> <<prices[1], prices[2], options>>,
                            at |-> now,
                            out |-> calculateSpread(prices[1], prices[2], options, now)])
    /\ UNCHANGED <<initialized, running, symbolInfo, opportunities, tasks, scanState, ranked, hostState>>

\* A call of ArbitrageService.calculateProfit.
CallCalculateProfit ==
    /\ Len(spreads) < MaxCalls
    /\ \E a \in ProfitArgs :
         spreads' = Append(spreads,
                           [fn |-> "calculateProfit",
                            args |-> a,
                            at |-> now,
                            out |-> calculateProfitAt(now, a.direction, a.network, a.baseToken,
                                                      a.quoteToken, a.buyPrice, a.sellPrice)])
    /\ UNCHANGED <<initialized, running, symbolInfo, opportunities, tasks, scanState, ranked, hostState>>

\* A call of BasicArbitrageStrategy.shouldExecute.
CallShouldExecute ==
    /\ Len(spreads) < MaxCalls
    /\ \E candidate \in ExecuteCandidates :
         spreads' = Append(spreads,
                           [fn |-> "shouldExecute",
                            args |-> candidate,
                            at |-> now,
                            out |-> shouldExecute(candidate)])
    /\ UNCHANGED <<initialized, running, symbolInfo, opportunities, tasks, scanState, ranked, hostState>>

CalcNext ==
    \/ CallCalculateSpread
    \/ CallCalculateProfit
    \/ CallShouldExecute
    \/ Tick

CalcSpec == CalcInit /\ [][CalcNext]_vars

\* ------------------------------------------------------------- the ranking
\* The longest array the sort is given.
MaxRanked == 4

\* Opportunities to rank, with profitPercentage 0.9, 1.2 and, twice, 3.4.
RankEntries ==
    { [NoOpp EXCEPT !.direction = "cexToDex", !.network = "polygon", !.profitPercentage = 900],
      [NoOpp EXCEPT !.direction = "cexToDex", !.network = "optimism", !.profitPercentage = 1200],
      [NoOpp EXCEPT !.direction = "dexToCex", !.network = "arbitrum", !.profitPercentage = 3400],
      [NoOpp EXCEPT !.direction = "cexToDex", !.network = "arbitrum", !.profitPercentage = 3400] }

RankInputs == UNION { [1..n -> RankEntries] : n \in 0..MaxRanked }

\* opportunities.sort(...) at the end of findArbitrageOpportunities (and of
\* evaluateArbitrageOpportunities), on an array of the scan.
SortOpportunities ==
    /\ \E in \in RankInputs : ranked' = [NoRanking EXCEPT !.in = in, !.out = sortByProfit(in)]
    /\ UNCHANGED <<initialized, running, symbolInfo, opportunities, tasks, scanState, spreads, hostState>>

\* Binance quotes and a Uniswap price for one combination: the usual case,
\* the quotes 26.6 / 20.54 with the DEX at 23.4, for which both directions
\* gain 2/15 of their cost on polygon, and an ask of 10.1184, for which
\* buying on Binance and selling at 10.2 on polygon gains nothing (10.2 less
\* the fee 0.0306 is 10.1694, the ask with the fee 0.001 and the gas 0.05).
RankCexQuotes ==
    { [avail |-> TRUE, bid |-> 99000, ask |-> 100000],
      [avail |-> TRUE, bid |-> 266000, ask |-> 205400],
      [avail |-> TRUE, bid |-> 101000, ask |-> 101184] }
RankDexPrices == {102000, 234000}

\* The scan of one pair x network combination: the two calculations, the
\* pushes of the retained results, the sort, and the assignment of the
\* sorted array to this.opportunities.
SortCombination ==
    /\ \E q \in RankCexQuotes, dexPrice \in RankDexPrices, ni \in {3, 4} :
         LET in == pushBoth(<< >>, networks[ni], tradingPairs[1], q.bid, q.ask, dexPrice)
         IN  /\ ranked' = [in |-> in, out |-> sortByProfit(in),
                           bid |-> q.bid, ask |-> q.ask, dex |-> dexPrice]
             /\ opportunities' = sortByProfit(in)
    /\ UNCHANGED <<initialized, running, symbolInfo, tasks, scanState, spreads, hostState>>

RankNext ==
    \/ SortOpportunities
    \/ SortCombination

RankSpec == CalcInit /\ [][RankNext]_vars

\* ------------------------------------------- one iteration, after its scan
\* The state in which the scan of a loop iteration has just returned: the
\* ledger holds its result and the loop is in its for-of loop, at the first
\* await or, with nothing to execute, in the timer.
LoopInit ==
    /\ initialized = TRUE
    /\ running = TRUE
    /\ provider = OptimismAndPolygon
    /\ cache = EmptyCache
    /\ now = 0
    /\ last = NoScan
    /\ spreads = << >>
    /\ ranked = NoRanking
    /\ adapters = BothAdapters
    /\ started = "ok"
    /\ refused = NoRefusal
    /\ exit = NotExited
    /\ symbolInfo \in SymbolInfos
    /\ \E q \in LoopCexQuotes, d3 \in LoopDexPrices, d4 \in LoopDexPrices :
         /\ opportunities = opportunitiesOf(<< visit(1, 3, "computed", q.bid, q.ask, d3, NoLookup),
                                               visit(1, 4, "computed", q.bid, q.ask, d4, NoLookup) >>)
         /\ tasks = SetToBag({forOpportunities(symbolInfo, [NoTask EXCEPT !.kind = "loop"],
                                                opportunities, 1)})

LoopNext ==
    \/ Leg1Return
    \/ Leg2Return
    \/ MineTx
    \/ LoopResume

LoopSpec == LoopInit /\ [][LoopNext]_vars

\* ------------------------------------------------- execute requests by id
\* The times at which the scan that filled the ledger read the clock, in
\* milliseconds (small numbers stand for the epoch times).
ApiTimes == {17, 18}

Digits == <<"0", "1", "2", "3", "4", "5", "6", "7", "8", "9">>

\* String(n) for a natural number n, as a sequence of characters.
RECURSIVE numberToString(_)
numberToString(n) ==
    IF n < 10 THEN <<Digits[n + 1]>>
    ELSE Append(numberToString(n \div 10), Digits[(n % 10) + 1])

\* The digits a text begins with.
RECURSIVE leadingDigits(_)
leadingDigits(text) ==
    IF text = << >> \/ ~(\E d \in DOMAIN Digits : Digits[d] = Head(text)) THEN << >>
    ELSE <<Head(text)>> \o leadingDigits(Tail(text))

RECURSIVE digitsValue(_)
digitsValue(ds) ==
    IF ds = << >> THEN 0
    ELSE 10 * digitsValue(SubSeq(ds, 1, Len(ds) - 1))
         + (CHOOSE d \in 0..9 : Digits[d + 1] = ds[Len(ds)])

\* parseInt on the characters of a string or of a number: the number its
\* leading digits spell, or NaN when it begins with none.
parseInt(text) ==
    IF leadingDigits(text) = << >> THEN [nan |-> TRUE, value |-> 0]
    ELSE [nan |-> FALSE, value |-> digitsValue(leadingDigits(text))]

\* JavaScript truthiness of an opportunityId: undefined, the empty string
\* and the number 0 are falsy.
truthy(id) ==
    CASE id.type = "undefined" -> FALSE
      [] id.type = "string" -> id.text # << >>
      [] id.type = "number" -> digitsValue(leadingDigits(id.text)) # 0

\* findOpportunity with a fault: the test for a missing id is left out.
findOpportunity_skipsIdTest(ledger, id) ==
    LET n == parseInt(id.text)
        hits == {k \in DOMAIN ledger : ~n.nan /\ ledger[k].timestamp = n.value}
    IN  IF hits = {} THEN [status |-> 404, opportunity |-> NoOpp]
        ELSE [status |-> 0, opportunity |-> ledger[CHOOSE k \in hits : \A j \in hits : k <= j]]

\* The POST /api/opportunities/execute handler up to the call of
\* executeArbitrage: 400 without an id, 404 when find() gets no entry whose
\* timestamp is parseInt of the id, else (status 0) the first such entry.
findOpportunity(ledger, id) ==
    IF ~truthy(id) THEN [status |-> 400, opportunity |-> NoOpp]
    ELSE LET n == parseInt(id.text)
             hits == {k \in DOMAIN ledger : ~n.nan /\ ledger[k].timestamp = n.value}
         IN  IF hits = {} THEN [status |-> 404, opportunity |-> NoOpp]
             ELSE [status |-> 0,
                   opportunity |-> ledger[CHOOSE k \in hits : \A j \in hits : k <= j]]

\* The two pushes of one combination, with the times at which the two calls
\* of calculateProfit read the clock.
pushBothAt(acc, t1, t2, network, pair, cexBid, cexAsk, dexPrice) ==
    LET dexToCexProfit == calculateProfitAt(t1, "dexToCex", network, pair[1], pair[2], dexPrice, cexBid)
        cexToDexProfit == calculateProfitAt(t2, "cexToDex", network, pair[1], pair[2], cexAsk, dexPrice)
        a1 == IF retained(dexToCexProfit) THEN Append(acc, dexToCexProfit) ELSE acc
    IN  IF retained(cexToDexProfit) THEN Append(a1, cexToDexProfit) ELSE a1

\* Ids that no sender took from the ledger: none, the empty string, the
\* number 0, a time of no scan, and text that is no number.
StrayIds ==
    { NoId,
      [type |-> "string", text |-> << >>],
      [type |-> "number", text |-> <<"0">>],
      [type |-> "string", text |-> <<"1", "9">>],
      [type |-> "string", text |-> <<"a", "b">>] }

\* The execute requests that may arrive: with a stray id, or with the id
\* that a reader of GET /api/opportunities saw on an entry of the ledger.
ExecuteRequests(ledger) ==
    { [body |-> id, ref |-> NoOpp] : id \in StrayIds }
        \cup { [body |-> [type |-> ty, text |-> numberToString(ledger[k].timestamp)],
                ref |-> ledger[k]] : k \in DOMAIN ledger, ty \in {"string", "number"} }

\* A scan has returned, the loop is not running; the entries of the ledger
\* carry the times at which they were computed, which do not decrease along
\* the scan.
ApiInit ==
    /\ initialized = TRUE
    /\ running = FALSE
    /\ provider = OptimismAndPolygon
    /\ cache = EmptyCache
    /\ now = 18
    /\ last = NoScan
    /\ spreads = << >>
    /\ ranked = NoRanking
    /\ adapters = BothAdapters
    /\ started = "none"
    /\ refused = NoRefusal
    /\ exit = NotExited
    /\ symbolInfo \in SymbolInfos
    /\ tasks = EmptyBag
    /\ \E q \in LoopCexQuotes, d3 \in LoopDexPrices, d4 \in LoopDexPrices :
         \E t1 \in ApiTimes, t2 \in ApiTimes, t3 \in ApiTimes, t4 \in ApiTimes :
            /\ t1 <= t2 /\ t2 <= t3 /\ t3 <= t4
            /\ opportunities =
                  sortByProfit(pushBothAt(pushBothAt(<< >>, t1, t2, networks[3], tradingPairs[1],
                                                     q.bid, q.ask, d3),
                                          t3, t4, networks[4], tradingPairs[1], q.bid, q.ask, d4))

\* POST /api/opportunities/execute, up to its answer 400 or 404 or to the
\* await of executeArbitrage.
HttpExecuteById ==
    /\ NumTasks("execute") < MaxRequests
    /\ \E req \in ExecuteRequests(opportunities) :
         LET found == findOpportunity(opportunities, req.body)
         IN  IF found.status # 0
             THEN /\ refused' = [status |-> found.status, body |-> req.body]
                  /\ UNCHANGED tasks
             ELSE /\ tasks' = tasks (+) SetToBag({[NoTask EXCEPT
                                                     !.kind = "execute", !.pc = "exec",
                                                     !.ex = executeStart(symbolInfo, found.opportunity),
                                                     !.body = req.body, !.ref = req.ref]})
                  /\ UNCHANGED refused
    /\ UNCHANGED <<adapters, started, exit, scanState, calcState, initialized, running, symbolInfo,
                   opportunities>>

ApiNext ==
    \/ HttpExecuteById
    \/ Leg1Return
    \/ Leg2Return
    \/ MineTx
    \/ HttpRespond

ApiSpec == ApiInit /\ [][ApiNext]_vars

\* ------------------------------------------------- the loop, cycle by cycle
\* LoopWake with the iterations counted: a timer of runArbitrageLoop fires,
\* and the loop ends (this.running is false) or begins its next iteration
\* with a scan.
NextIteration ==
    \E t \in BagToSet(tasks) :
        /\ t.kind = "loop"
        /\ t.pc \in {"sleep", "backoff"}
        /\ IF ~running
           THEN /\ tasks' = tasks (-) SetToBag({t})
                /\ UNCHANGED opportunities
           ELSE \E px \in [Symbols -> CexQuotes] :
                  LET step == scanFrom(symbolInfo, t, 1, 1, << >>, px)
                  IN  /\ tasks' = Replace(t, [step.task EXCEPT !.iter = 1 - t.iter])
                      /\ opportunities' = IF step.done THEN step.ledger ELSE opportunities
        /\ UNCHANGED <<hostState, scanState, calcState, initialized, running, symbolInfo>>

\* One loop, from the first scan's return on; stop() may be called, start()
\* is not called again.
CycleNext ==
    \/ NextIteration
    \/ DexPriceReturn
    \/ Leg1Return
    \/ Leg2Return
    \/ MineTx
    \/ LoopResume
    \/ Stop

\* Timers fire, venue calls and price lookups settle, and a function whose
\* await has settled is resumed.
CycleFairness ==
    /\ WF_vars(NextIteration)
    /\ WF_vars(DexPriceReturn)
    /\ WF_vars(Leg1Return)
    /\ WF_vars(Leg2Return)
    /\ WF_vars(LoopResume)

CycleSpec == LoopInit /\ [][CycleNext]_vars /\ CycleFairness

\* ------------------------------------------------------------- the shutdown
\* The SIGINT / SIGTERM handler: shutdown() calls arbitrageService.stop(),
\* which clears this.running, and apiService.stop(), which closes the server
\* without waiting; both return promises that are resolved already, so the
\* handler goes on to process.exit(0) before any timer or venue call of the
\* suspended activations can settle.  With the process, they are gone.
ShutdownOnSignal ==
    /\ ~exit.exited
    /\ running' = FALSE
    /\ exit' = [exited |-> TRUE, cut |-> tasks]
    /\ tasks' = EmptyBag
    /\ UNCHANGED <<adapters, started, refused, scanState, calcState, initialized, symbolInfo,
                   opportunities>>

\* One loop, as in CycleSpec, and a signal that may arrive at any time.
ShutdownNext ==
    \/ NextIteration
    \/ DexPriceReturn
    \/ Leg1Return
    \/ Leg2Return
    \/ MineTx
    \/ LoopResume
    \/ Stop
    \/ ShutdownOnSignal

ShutdownSpec == LoopInit /\ [][ShutdownNext]_vars

\* ------------------------------------------------- quantity normalization
\* Quantities to normalize, in 0.001 of the base token: below, at and above
\* a step of 0.3, and the multiples of it that normalization yields.
NormalizeQuantities == {0, 299, 300, 900, 1000, 1001}

\* A call of binance.normalizeQuantity, with the symbolInfo the adapter
\* holds.
CallNormalizeQuantity ==
    /\ Len(spreads) < MaxCalls
    /\ \E symbol \in Symbols, quantity \in NormalizeQuantities :
         spreads' = Append(spreads,
                           [fn |-> "normalizeQuantity",
                            args |-> [info |-> symbolInfo, symbol |-> symbol, quantity |-> quantity],
                            at |-> now,
                            out |-> normalizeQuantity(symbolInfo, symbol, quantity)])
    /\ UNCHANGED <<initialized, running, symbolInfo, opportunities, tasks, scanState, ranked, hostState>>

\* One iteration of the loop after its scan, and calls of normalizeQuantity
\* from outside the orchestrator.
QuantityNext ==
    \/ CallNormalizeQuantity
    \/ Leg1Return
    \/ Leg2Return
    \/ MineTx
    \/ LoopResume

QuantitySpec == LoopInit /\ [][QuantityNext]_vars

\* ---------------------------------- one snapshot, the loop and the requests
\* One iteration of the loop after its scan, with execute requests arriving
\* meanwhile: the ledger holds the one snapshot throughout.
SnapshotNext ==
    \/ Leg1Return
    \/ Leg2Return
    \/ MineTx
    \/ LoopResume
    \/ HttpExecute
    \/ HttpRespond

SnapshotSpec == LoopInit /\ [][SnapshotNext]_vars

\* ------------------------------------------------------------------ claims
\* The executeArbitrage activations that exist in the current state.
Executions == {t.ex : t \in {u \in BagToSet(tasks) : u.ex.pc # "none"}}

IsPrefix(p, q) == Len(p) <= Len(q) /\ SubSeq(q, 1, Len(p)) = p

\* |x - target| <= tolerance.
Near(x, target, tolerance) == x - target <= tolerance /\ target - x <= tolerance

PathSettled == <<"Idle", "Leg1Submitted", "Leg2Submitted", "Settled">>
PathFailedLeg1 == <<"Idle", "Leg1Submitted", "Failed(Leg1)">>
PathFailedLeg2 == <<"Idle", "Leg1Submitted", "Leg2Submitted", "Failed(Leg2)">>
PathFailedBeforeLeg1 == <<"Idle", "Failed">>

\* C1: in every execution leg 2 is submitted only after leg 1 is confirmed
\* settled: in a dexToCex execution the Binance sell is not submitted while
\* the DEX buy transaction is unmined, and in a cexToDex execution the DEX
\* sell is not submitted before the Binance buy has returned.
C1_Leg2OnlyAfterLeg1Settled ==
    \A ex \in Executions :
        Len(ex.calls) >= 2 =>
            /\ ex.r1 = "ok"
            /\ ex.opp.direction = "dexToCex" => ex.tx = "mined"

\* C2: at most one opportunity is being executed at any time, whatever the
\* interleaving of manual execute requests and loop steps.
C2_OneExecutionAtATime ==
    Cardinality({t \in BagToSet(tasks) : t.ex.pc \in {"leg1", "leg2"}}) <= 1
    /\ \A t \in BagToSet(tasks) : t.ex.pc \in {"leg1", "leg2"} => tasks[t] = 1

\* C3: after any sequence of start() and stop() calls at most one
\* scan-and-execute loop is alive.
C3_SingleLoop == NumTasks("loop") <= 1

\* C4: executeArbitrage never throws: an activation never ends by throwing,
\* and one in which normalization or a venue call failed has returned, with
\* the non-success value.
C4_ExecuteNeverThrows ==
    \A ex \in Executions :
        /\ ex.pc # "threw"
        /\ (ex.r1 = "error" \/ ex.r2 = "error" \/ Len(ex.calls) = 0) =>
               (ex.pc = "returned" /\ ex.value = FALSE)

C4_Witness ==
    \E ex \in Executions : ex.r1 = "ok" /\ ex.r2 = "error" /\ ex.pc = "returned" /\ ex.value = FALSE

\* C5: the outcome returned when leg 1 succeeded and leg 2 failed differs
\* from the outcome returned when leg 1 itself failed (it names the failure
\* stage).
C5_FailureStageDistinguishable ==
    \A e1 \in Executions, e2 \in Executions :
        (e1.pc = "returned" /\ e1.r1 = "error" /\ e2.pc = "returned" /\ e2.r1 = "ok" /\ e2.r2 = "error")
            => e1.value # e2.value

\* C6 (as stated): every execution follows one of the three paths
\* Idle -> Leg1Submitted -> Leg2Submitted -> Settled,
\* Idle -> Leg1Submitted -> Failed(Leg1),
\* Idle -> Leg1Submitted -> Leg2Submitted -> Failed(Leg2).
C6_ThreePaths ==
    \A ex \in Executions :
        \/ IsPrefix(ex.path, PathSettled)
        \/ IsPrefix(ex.path, PathFailedLeg1)
        \/ IsPrefix(ex.path, PathFailedLeg2)

\* C6 (amended): every execution follows one of the three paths or, when
\* quantity normalization throws before the Binance buy of a cexToDex
\* execution, Idle -> Failed with no leg submitted; when leg 1 fails leg 2
\* is never submitted; success is returned only after both legs returned
\* without error.
C6_FourPaths ==
    \A ex \in Executions :
        /\ \/ IsPrefix(ex.path, PathSettled)
           \/ IsPrefix(ex.path, PathFailedLeg1)
           \/ IsPrefix(ex.path, PathFailedLeg2)
           \/ /\ ex.path = PathFailedBeforeLeg1
              /\ ex.opp.direction = "cexToDex"
              /\ ex.calls = << >>
        /\ ex.r1 = "error" => (Len(ex.calls) = 1 /\ ex.r2 = "none" /\ ex.path = PathFailedLeg1)
        /\ (ex.pc = "returned" /\ ex.value) => (ex.r1 = "ok" /\ ex.r2 = "ok" /\ ex.path = PathSettled)
        /\ Len(ex.calls) = 2 <=> (Len(ex.path) >= 3 /\ ex.path[3] = "Leg2Submitted")

C6_Witness ==
    \E ex \in Executions : ex.r1 = "error" /\ ex.pc = "returned" /\ ex.path = PathFailedLeg1

\* C7: within one execution each leg is submitted at most once, and after
\* leg 2 fails the execution makes no further venue trade call.
C7_NoRetryNoRollback ==
    \A ex \in Executions :
        /\ Len(ex.calls) <= 2
        /\ Len(ex.calls) = 2 => ex.calls[1].venue # ex.calls[2].venue
        /\ ex.r2 = "error" => (ex.pc = "returned" /\ Len(ex.calls) = 2)

C7_Witness ==
    \E ex \in Executions : ex.r2 = "error" /\ Len(ex.calls) = 2 /\ ex.opp.direction = "dexToCex"

\* A venue call is the Binance market order / the Uniswap trade of that side
\* for the opportunity's pair (and network).
C8_IsBinance(call, side, opp) ==
    /\ call.venue = "binance"
    /\ call.side = side
    /\ call.symbol = opp.baseToken \o opp.quoteToken

C8_IsUniswap(call, action, opp) ==
    /\ call.venue = "uniswap"
    /\ call.side = action
    /\ call.network = opp.network
    /\ call.baseToken = opp.baseToken
    /\ call.quoteToken = opp.quoteToken

\* C8: direction dispatch: a cexToDex execution buys on Binance first and
\* sells on the DEX second, a dexToCex execution buys on the DEX first and
\* sells on Binance second; both legs are for the opportunity's pair, the
\* DEX leg on the opportunity's network.
C8_DirectionDispatch ==
    \A ex \in Executions :
        /\ ex.opp.direction \in {"cexToDex", "dexToCex"}
        /\ Len(ex.calls) >= 1 =>
              IF ex.opp.direction = "cexToDex"
              THEN C8_IsBinance(ex.calls[1], "BUY", ex.opp)
              ELSE C8_IsUniswap(ex.calls[1], "buy", ex.opp)
        /\ Len(ex.calls) >= 2 =>
              IF ex.opp.direction = "cexToDex"
              THEN C8_IsUniswap(ex.calls[2], "sell", ex.opp)
              ELSE C8_IsBinance(ex.calls[2], "SELL", ex.opp)

C8_Witness ==
    \E ex \in Executions : ex.opp.direction = "cexToDex" /\ Len(ex.calls) = 2 /\ ex.r2 = "ok"

\* C9: in both directions the quantity of the Binance order is the
\* opportunity's tradeAmount after normalizeQuantity.
C9_BinanceQuantityNormalized ==
    \A ex \in Executions : \A k \in DOMAIN ex.calls :
        ex.calls[k].venue = "binance" =>
            LET n == normalizeQuantity(symbolInfo, ex.calls[k].symbol, ex.opp.tradeAmount)
            IN  n.ok => ex.calls[k].quantity = n.value

\* C10: every opportunity in the ledger has a profitPercentage strictly
\* above the configured minimumProfitPercentage.
C10_LedgerAboveThreshold ==
    \A k \in DOMAIN opportunities :
        opportunities[k].profitPercentage > minimumProfitPercentage

\* An opportunity the loop is to execute.
C11_Above(o) == o.profitPercentage > minimumProfitPercentage

\* C11: in a loop iteration the opportunities handed to executeArbitrage
\* are, one after another and in ranked order, exactly those of the
\* iteration's scan result whose profitPercentage is strictly greater than
\* minimumProfitPercentage; one whose profitPercentage equals the threshold
\* is not executed.
C11_LoopExecutesAboveThreshold ==
    \A t \in BagToSet(tasks) :
        (t.kind = "loop" /\ t.pc \in {"exec", "sleep"}) =>
            LET upto == IF t.pc = "exec" THEN t.i ELSE Len(t.opps)
            IN  /\ t.opps = opportunities
                /\ t.log = SelectSeq(SubSeq(t.opps, 1, upto), C11_Above)
                /\ t.pc = "exec" =>
                      /\ t.i \in DOMAIN t.opps
                      /\ t.ex.opp = t.opps[t.i]
                      /\ C11_Above(t.ex.opp)

C11_Witness ==
    \E t \in BagToSet(tasks) :
        /\ t.kind = "loop"
        /\ t.pc = "sleep"
        /\ Len(t.log) = 1
        /\ \E k \in DOMAIN t.opps : t.opps[k].profitPercentage = minimumProfitPercentage

\* C12: the ledger is replaced atomically: in every state, the states in
\* which a scan is suspended in a price lookup included, a reader of the
\* ledger sees the initial empty list (no scan has completed) or the
\* complete sequence that the scan which completed last returned, and
\* never the array a scan is still building.
C12_LedgerReplacedAtomically ==
    /\ opportunities = last.ret
    /\ ~last.any => opportunities = << >>

C12_Witness ==
    \E t \in BagToSet(tasks) :
        /\ t.pc = "getPrice"
        /\ t.acc # << >>
        /\ last.any
        /\ opportunities # << >>
        /\ opportunities # t.acc

\* C13: when a scan has completed the ledger is exactly the sequence made
\* from the combinations of that scan: no entry of the ledger it replaced
\* survives, and if no combination yielded data the ledger is empty,
\* whatever it held before.
C13_LedgerIsLastScanResult ==
    last.any =>
        /\ opportunities = opportunitiesOf(last.trail)
        /\ (\A k \in DOMAIN last.trail : last.trail[k].outcome # "computed") =>
               (last.ret = << >> /\ opportunities = << >>)

C13_Witness ==
    /\ last.any
    /\ last.before # << >>
    /\ \A k \in DOMAIN last.trail : last.trail[k].outcome # "computed"
    /\ opportunities = << >>

\* The entries of s with profitPercentage p, in their order in s.
C14_WithProfit(s, p) == SelectSeq(s, LAMBDA o : o.profitPercentage = p)

\* C14: the sorted sequence is ordered by profitPercentage, largest first
\* (non-increasing), holds the entries of the array given, and keeps the
\* entries of equal profitPercentage in the order they were found in.
C14_RankedStable ==
    /\ Len(ranked.out) = Len(ranked.in)
    /\ \A i \in DOMAIN ranked.out, j \in DOMAIN ranked.out :
          i < j => ranked.out[i].profitPercentage >= ranked.out[j].profitPercentage
    /\ \A p \in {ranked.in[k].profitPercentage : k \in DOMAIN ranked.in} :
          C14_WithProfit(ranked.out, p) = C14_WithProfit(ranked.in, p)

C14_Witness ==
    /\ Len(ranked.in) = 4
    /\ [k \in 1..4 |-> ranked.in[k].profitPercentage] = <<1200, 3400, 3400, 900>>
    /\ ranked.in[2] # ranked.in[3]
    /\ ranked.out = <<ranked.in[2], ranked.in[3], ranked.in[1], ranked.in[4]>>

\* The calls of calculateSpread made so far.
C15_SpreadCalls == {spreads[k] : k \in {j \in DOMAIN spreads : spreads[j].fn = "calculateSpread"}}

\* C15: for a call of calculateSpread with totalBuyCost > 0 the result has
\* totalBuyCost = buyPrice x tradeSize x (1 + buyFee), totalSellProceeds =
\* sellPrice x tradeSize x (1 - sellFee), rawProfit = totalSellProceeds -
\* totalBuyCost, profitAfterGas = rawProfit - gasCost and profitPercentage =
\* profitAfterGas / totalBuyCost x 100 (to the five decimal places of the
\* quotient the model keeps).
C15_SpreadFormulas ==
    \A r \in C15_SpreadCalls :
        LET buyPrice == r.args[1]
            sellPrice == r.args[2]
            o == r.args[3]
        IN  r.out.totalBuyCost > 0 =>
                /\ r.out.totalBuyCost = buyPrice * o.tradeSize * (1000 + o.buyFee)
                /\ r.out.totalSellProceeds = sellPrice * o.tradeSize * (1000 - o.sellFee)
                /\ r.out.rawProfit = r.out.totalSellProceeds - r.out.totalBuyCost
                /\ r.out.profitAfterGas = r.out.rawProfit - o.gasCost * 1000
                /\ r.out.profitPercentage.kind = "finite"
                /\ Near(2 * r.out.profitPercentage.value * r.out.totalBuyCost,
                            2 * r.out.profitAfterGas * 100000, r.out.totalBuyCost)

C15_Witness ==
    \E r \in C15_SpreadCalls :
        /\ r.out.totalBuyCost > 0
        /\ r.out.profitAfterGas > 0
        /\ r.args[3].tradeSize = 2
        /\ r.out.profitPercentage.value > 0

\* C16: two calls of a calculator with identical inputs return results that
\* are identical in every field.
C16_IdenticalOutput ==
    \A i \in DOMAIN spreads, j \in DOMAIN spreads :
        (spreads[i].fn = spreads[j].fn /\ spreads[i].args = spreads[j].args)
            => spreads[i].out = spreads[j].out

\* C17: a profit computation whose totalBuyCost is 0 fails with an error: no
\* result is returned with totalBuyCost 0, and no result has a
\* profitPercentage that is infinite or NaN.
C17_ZeroCostFailsExplicitly ==
    \A r \in C15_SpreadCalls :
        /\ r.out.totalBuyCost # 0
        /\ r.out.profitPercentage.kind = "finite"

\* The cexToDex result of a combination of a completed scan.
C18_CexToDex(v) ==
    calculateProfit("cexToDex", networks[v.ni], tradingPairs[v.pi][1], tradingPairs[v.pi][2],
                    v.ask, v.dex)

C18_IsScenario(v, dexPrice) ==
    /\ v.outcome = "computed"
    /\ gasCostOf(networks[v.ni]) = 1000
    /\ v.ask = 1000000
    /\ v.dex = dexPrice

C18_InLedger(r) == \E k \in DOMAIN opportunities : opportunities[k] = r

\* C18: with a Binance ask of 100.00, fees of 0.1 and 0.3 percent, a gas
\* cost of 0.10, a trade of 1 and a threshold of 0.5 percent, a scan that
\* gets the DEX price 101.00 computes a cexToDex profit of about 0.4875
\* (0.4875 percent) and keeps it out of the opportunities, and one that gets
\* 102.00 computes about 1.47 percent and includes it.
C18_EndToEndScenario ==
    last.any =>
        \A k \in DOMAIN last.trail :
            LET v == last.trail[k]
                r == C18_CexToDex(v)
            IN  /\ C18_IsScenario(v, 1010000) =>
                      /\ Near(r.estimatedProfit, 4875, 250)
                      /\ Near(r.profitPercentage, 488, 25)
                      /\ ~C18_InLedger(r)
                /\ C18_IsScenario(v, 1020000) =>
                      /\ Near(r.profitPercentage, 1470, 50)
                      /\ C18_InLedger(r)

\* The pair x network combinations that have a provider, in the order of the
\* two for loops.
C19_HasProvider(c) == provider[networks[c[2]]]

C19_Combinations ==
    SelectSeq([k \in 1..(Len(tradingPairs) * Len(networks)) |->
                  <<((k - 1) \div Len(networks)) + 1, ((k - 1) % Len(networks)) + 1>>],
              C19_HasProvider)

\* C19: a combination without Binance prices or without a DEX price is left
\* out alone: the scan completes, it has been through every combination
\* that has a provider, in order, and each combination for which both
\* prices were there was computed and its retained results are in the
\* sequence returned.
C19_FailureConfinedToCombination ==
    last.any =>
        /\ [k \in DOMAIN last.trail |-> <<last.trail[k].pi, last.trail[k].ni>>] = C19_Combinations
        /\ \A k \in DOMAIN last.trail :
              LET v == last.trail[k]
                  r1 == calculateProfit("dexToCex", networks[v.ni], tradingPairs[v.pi][1],
                                        tradingPairs[v.pi][2], v.dex, v.bid)
                  r2 == C18_CexToDex(v)
              IN  /\ v.outcome = "computed" <=> (v.bid # 0 /\ v.ask # 0 /\ v.dex # 0)
                  /\ v.outcome = "computed" =>
                        /\ retained(r1) => \E j \in DOMAIN last.ret : last.ret[j] = r1
                        /\ retained(r2) => \E j \in DOMAIN last.ret : last.ret[j] = r2

C19_Witness ==
    /\ last.any
    /\ Len(last.trail) = 2
    /\ last.trail[1].outcome \in {"noCex", "noDex"}
    /\ last.trail[2].outcome = "computed"
    /\ last.ret # << >>

\* The calls of getDexPrice that have returned: those of the scan that
\* completed last and of the scans in flight.
C20_Lookups ==
    {last.trail[k] : k \in DOMAIN last.trail}
        \cup UNION {{t.trail[k] : k \in DOMAIN t.trail} : t \in BagToSet(tasks)}

\* C20: the DEX price lookup is cache-or-fetch: a call that finds a live
\* cache entry under its key returns the cached value without calling the
\* adapter; a call that finds none calls the adapter once and, when the
\* adapter returns a price, leaves that price under the key with the fixed
\* TTL and returns it.
C20_CacheOrFetch ==
    /\ \A v \in C20_Lookups :
          v.lookup.called =>
              /\ v.lookup.live =>
                    /\ v.lookup.fetched = 0
                    /\ v.outcome = "computed"
                    /\ v.dex = v.lookup.cached
              /\ ~v.lookup.live =>
                    /\ v.lookup.fetched = 1
                    /\ v.outcome = "computed" => (v.lookup.stored = v.dex /\ v.lookup.ttl = stdTTL)
    /\ \A t \in BagToSet(tasks) :
          t.pc = "getPrice" => (t.lookup.called /\ ~t.lookup.live /\ t.lookup.fetched = 1)

C20_Witness ==
    /\ last.any
    /\ \E v \in C20_Lookups : v.lookup.live /\ v.lookup.fetched = 0 /\ v.outcome = "computed"
    /\ \E v \in C20_Lookups : ~v.lookup.live /\ v.lookup.fetched = 1 /\ v.outcome = "computed"
    /\ \E key \in DOMAIN cache : cache[key].t < now

\* C25: the service runs only with both venues initialized: running implies
\* initialized; initialized holds only when both adapters have initialized;
\* and while initialize() has not succeeded a call of start() throws, so
\* that the service is not running, no start() has succeeded and no loop
\* exists.
C25_RunsOnlyInitialized ==
    /\ running => initialized
    /\ initialized => adapters = BothAdapters
    /\ ~initialized => (~running /\ started # "ok" /\ NumTasks("loop") = 0)

C25_Witness ==
    /\ started = "threw"
    /\ ~initialized
    /\ adapters = [binance |-> TRUE, uniswap |-> FALSE]
    /\ ~running
    /\ tasks = EmptyBag

\* C21: a call of getDexPrice that misses the cache and whose adapter call
\* fails returns null and does not throw; it sets no entry under its key
\* (so the key has an entry afterwards only if another scan's call stored
\* one meanwhile); and the scan skips the combination: it computes nothing
\* for it and goes on.
C21_AdapterFailureIsNoPrice ==
    /\ \A v \in C20_Lookups :
          (v.lookup.called /\ ~v.lookup.live /\ v.dex = 0) =>
              /\ v.outcome = "noDex"
              /\ v.lookup.fetched = 1
              /\ ~v.lookup.wrote
    /\ last.any =>
          \A k \in DOMAIN last.trail :
              last.trail[k].outcome = "noDex" =>
                  /\ \A j \in DOMAIN last.ret : last.ret[j].network # networks[last.trail[k].ni]
                  /\ C19_Combinations[k] = <<last.trail[k].pi, last.trail[k].ni>>
                  /\ Len(last.trail) = Len(C19_Combinations)

C21_Witness ==
    /\ last.any
    /\ Len(last.trail) = 2
    /\ last.trail[1].outcome = "noDex"
    /\ last.trail[1].lookup.fetched = 1
    /\ last.trail[2].outcome = "computed"
    /\ last.ret # << >>
    /\ cacheKey(networks[last.trail[1].ni], "LINK", "USDT") \notin DOMAIN cache

\* C22: when an execution attempted in a loop iteration has failed (leg 1
\* or leg 2 failed and executeArbitrage returned false), the sleep the loop
\* goes into when it resumes is the error backoff, not the normal interval.
C22_FailureLeadsToBackoff ==
    [][\A t \in BagToSet(tasks) :
          (t.kind = "loop" /\ t.pc = "exec" /\ t.ex.pc = "returned" /\ ~t.ex.value
              /\ (t.ex.r1 = "error" \/ t.ex.r2 = "error")) =>
              \A u \in BagToSet(tasks') :
                  (u.kind = "loop" /\ u.pc \in {"sleep", "backoff"}) => u.pc = "backoff"]_vars

\* The loop has begun an iteration of parity p and has not ended.
C23_InIteration(p) == \E t \in BagToSet(tasks) : t.kind = "loop" /\ t.pc # "ended" /\ t.iter = p

\* C23: no error inside an iteration ends the loop: while this.running
\* stays true, every iteration, with or without failed price lookups and
\* failed executions, is followed by the scan of another iteration.
C23_LoopContinues ==
    /\ []((\E t \in BagToSet(tasks) : t.kind = "loop") \/ ~running)
    /\ \A p \in {0, 1} : (\E t \in BagToSet(tasks) : t.kind = "loop" /\ t.iter = p)
                            ~> (C23_InIteration(1 - p) \/ ~running)

C23_Witness ==
    \E t \in BagToSet(tasks) :
        /\ t.kind = "loop"
        /\ t.iter = 1
        /\ t.pc = "sleep"
        /\ Len(t.log) = 1
        /\ running

\* An execution awaits the venue call of one of its legs.
C24_InFlight == \E t \in BagToSet(tasks) : t.pc = "exec" /\ t.ex.pc \in {"leg1", "leg2"}

\* C24: stop() is cooperative.  The step in which it clears this.running
\* changes nothing else.  An execution in flight while the service is
\* stopped goes on: once its leg 1 has returned its leg 2 has been
\* submitted, and it comes to return its outcome.  With no further start(),
\* the loop begins no iteration once this.running is false, and it
\* eventually ends.
C24_StopIsCooperative ==
    /\ [][(running /\ ~running') =>
              UNCHANGED <<initialized, symbolInfo, opportunities, tasks, scanState, calcState,
                          hostState>>]_vars
    /\ [][~running =>
              \A u \in BagToSet(tasks') :
                  u.kind = "loop" => \E t \in BagToSet(tasks) : t.kind = "loop" /\ t.iter = u.iter]_vars
    /\ [](\A ex \in Executions : ex.r1 = "ok" => Len(ex.calls) = 2)
    /\ (~running /\ C24_InFlight) ~> (\E t \in BagToSet(tasks) : t.ex.pc = "returned")
    /\ ~running ~> (NumTasks("loop") = 0)

C24_Witness ==
    /\ ~running
    /\ \E t \in BagToSet(tasks) :
          /\ t.kind = "loop"
          /\ t.pc = "exec"
          /\ t.ex.pc = "leg2"
          /\ t.ex.r1 = "ok"
          /\ Len(t.ex.calls) = 2

\* C26: an execute request without an id is answered 400 and one whose id
\* matches no entry of the ledger 404, and only those; answering so starts
\* no execution (no venue call) and leaves the ledger alone; and every
\* execution a request started is for an id that matches an entry.
C26_UnknownIdRefused ==
    /\ [][refused' # refused =>
              /\ tasks' = tasks
              /\ opportunities' = opportunities
              /\ refused'.status \in {400, 404}
              /\ refused'.status = 400 <=> ~truthy(refused'.body)
              /\ refused'.status = 404 =>
                    \A k \in DOMAIN opportunities :
                        opportunities[k].timestamp # parseInt(refused'.body.text).value]_vars
    /\ [](\A t \in BagToSet(tasks) :
              t.kind = "execute" =>
                  /\ truthy(t.body)
                  /\ ~parseInt(t.body.text).nan
                  /\ \E k \in DOMAIN opportunities :
                        opportunities[k].timestamp = parseInt(t.body.text).value)

C26_Witness ==
    /\ refused.status = 404
    /\ refused.body.text = <<"1", "9">>
    /\ opportunities # << >>
    /\ tasks = EmptyBag

\* C27: an execute request sent with the id (timestamp) of an entry of the
\* ledger executes that entry, and no other entry of the ledger has that
\* timestamp.
C27_IdSelectsOneOpportunity ==
    \A t \in BagToSet(tasks) :
        (t.kind = "execute" /\ t.ref # NoOpp) =>
            /\ t.ex.opp = t.ref
            /\ \A k \in DOMAIN opportunities :
                  opportunities[k].timestamp = t.ref.timestamp => opportunities[k] = t.ref

\* C28: at most one scan (one activation of findArbitrageOpportunities) is
\* in progress at any time.
C28_SingleScanInProgress ==
    BagCardinality([t \in {u \in BagToSet(tasks) : u.pc = "getPrice"} |-> tasks[t]]) <= 1

\* What calculateSpread gives for the arguments of a call of
\* calculateProfit: the same prices and gas cost (in 0.01), the fee rates
\* of the two venues by direction, and a trade size of 1.
C29_SpreadFor(a, t) ==
    calculateSpread(a.buyPrice \div 100, a.sellPrice \div 100,
                    [direction |-> a.direction,
                     buyFee |-> IF a.direction = "cexToDex" THEN binanceTakerFee ELSE uniswapFee,
                     sellFee |-> IF a.direction = "cexToDex" THEN uniswapFee ELSE binanceTakerFee,
                     gasCost |-> gasCostOf(a.network) \div 100,
                     tradeSize |-> 1],
                    t)

\* C29: the profit and the profitPercentage that the scanner's
\* calculateProfit records equal what calculateSpread computes for the same
\* prices, fee rates, gas cost and a trade size of 1 (so the buy fee is
\* buyPrice x tradeSize x buyFeeRate in both directions).
C29_ScannerUsesSpreadFormulas ==
    \A k \in DOMAIN spreads :
        spreads[k].fn = "calculateProfit" =>
            LET s == C29_SpreadFor(spreads[k].args, spreads[k].at)
            IN  /\ s.profitAfterGas = spreads[k].out.estimatedProfit * 10
                /\ s.profitPercentage = [kind |-> "finite", value |-> spreads[k].out.profitPercentage]

\* Two results of the scanner for the same pair and network.
C30_SameCombination(a, b) ==
    /\ a.tradeAmount = tradeAmount
    /\ b.tradeAmount = tradeAmount
    /\ <<a.network, a.baseToken, a.quoteToken>> = <<b.network, b.baseToken, b.quoteToken>>

\* C30: when both directions of one combination are retained with equal
\* profitPercentage, the cexToDex entry precedes the dexToCex entry in the
\* result of the scan.
C30_CexToDexFirstOnTie ==
    \A i \in DOMAIN ranked.out, j \in DOMAIN ranked.out :
        (/\ C30_SameCombination(ranked.out[i], ranked.out[j])
         /\ ranked.out[i].profitPercentage = ranked.out[j].profitPercentage
         /\ ranked.out[i].direction = "cexToDex"
         /\ ranked.out[j].direction = "dexToCex") => i < j

\* C31: the scanner prices each direction on its side of the book: the
\* cexToDex result of a combination has the Binance best ask as buyPrice and
\* the DEX price as sellPrice, and the dexToCex result has the DEX price as
\* buyPrice and the Binance best bid as sellPrice.
C31_SidesOfTheBook ==
    ranked.dex # 0 =>
        \A k \in DOMAIN ranked.in :
            LET o == ranked.in[k]
            IN  /\ o.direction \in {"cexToDex", "dexToCex"}
                /\ o.direction = "cexToDex" => (o.buyPrice = ranked.ask /\ o.sellPrice = ranked.dex)
                /\ o.direction = "dexToCex" => (o.buyPrice = ranked.dex /\ o.sellPrice = ranked.bid)

C31_Witness ==
    /\ ranked.bid # ranked.ask
    /\ Len(ranked.in) = 2
    /\ ranked.in[1].direction = "dexToCex"
    /\ ranked.in[1].sellPrice = ranked.bid
    /\ ranked.in[2].direction = "cexToDex"
    /\ ranked.in[2].buyPrice = ranked.ask

\* C32: shouldExecute(opportunity) returns true exactly when the opportunity
\* is present, its profitPercentage is strictly greater than
\* minProfitPercentage and its profitAfterGas is at least three times its
\* gasCost; an opportunity at the threshold exactly is rejected.
C32_ShouldExecuteIsStrict ==
    \A k \in DOMAIN spreads :
        spreads[k].fn = "shouldExecute" =>
            LET c == spreads[k].args
            IN  spreads[k].out =
                    (/\ c.given
                     /\ c.opp.profitPercentage.kind = "finite"
                     /\ c.opp.profitPercentage.value > minimumProfitPercentage
                     /\ c.opp.profitAfterGas >= 3 * c.opp.gasCost)

\* C33: in a dexToCex execution the DEX buy is for tradeAmount units of the
\* base token, the quantity that the Binance sell then sells, so that an
\* execution whose two legs succeed leaves no position in the base token.
C33_BuyIsSizedInBase ==
    \A ex \in Executions :
        (ex.opp.direction = "dexToCex" /\ Len(ex.calls) >= 1) =>
            /\ ex.calls[1].unit = "base"
            /\ ex.calls[1].quantity = ex.opp.tradeAmount
            /\ Len(ex.calls) = 2 =>
                  (ex.calls[2].unit = ex.calls[1].unit /\ ex.calls[2].quantity = ex.calls[1].quantity)

\* The number of times o occurs in the sequence s.
C34_Count(s, o) == Len(SelectSeq(s, LAMBDA e : e = o))

\* The executions of o that the state holds: those the loop has handed to
\* executeArbitrage in its iteration, and those which execute requests
\* started and await.
C34_Executions(o) ==
    LET loops == {t \in BagToSet(tasks) : t.kind = "loop"}
        requests == {t \in BagToSet(tasks) : t.kind = "execute" /\ t.ex.opp = o}
    IN  (IF loops = {} THEN 0 ELSE C34_Count((CHOOSE t \in loops : TRUE).log, o))
            + BagCardinality([t \in requests |-> tasks[t]])

\* C34: each opportunity of a snapshot is executed at most once: not by the
\* loop and by an execute request as well, and not by two requests.
C34_ExecutedAtMostOnce ==
    \A k \in DOMAIN opportunities : C34_Executions(opportunities[k]) <= 1

\* The positions after i of the opportunities of t that are above the
\* threshold.
C35_Remaining(t) == {j \in DOMAIN t.opps : j > t.i /\ C11_Above(t.opps[j])}

\* C35: a failed execution does not stop the iteration.  When the loop
\* resumes after an execution that returned false, at whatever stage it
\* failed, it hands the next opportunity above the threshold to
\* executeArbitrage, or sleeps the normal interval if none is left; and an
\* iteration that has reached its sleep has executed every opportunity of
\* its snapshot that is above the threshold, whatever failed on the way.
C35_FailureDoesNotStopIteration ==
    /\ [][\A t \in BagToSet(tasks) :
            (t.kind = "loop" /\ t.pc = "exec" /\ t.ex.pc = "returned" /\ ~t.ex.value) =>
                \A u \in BagToSet(tasks') :
                    (u.kind = "loop" /\ (u.pc # "exec" \/ u.i # t.i)) =>
                        /\ u.failed = Append(t.failed, t.ex.path[Len(t.ex.path)])
                        /\ IF C35_Remaining(t) = {}
                           THEN u.pc = "sleep" /\ u.log = t.log
                           ELSE LET j == CHOOSE n \in C35_Remaining(t) :
                                             \A m \in C35_Remaining(t) : n <= m
                                IN  /\ u.pc = "exec"
                                    /\ u.i = j
                                    /\ u.ex.opp = t.opps[j]
                                    /\ u.log = Append(t.log, t.opps[j])]_vars
    /\ [](\A t \in BagToSet(tasks) :
              t.kind = "loop" =>
                  /\ t.pc \in {"exec", "sleep"}
                  /\ Len(t.failed) <= Len(t.log)
                  /\ t.pc = "sleep" => t.log = SelectSeq(t.opps, C11_Above))

C35_Witness ==
    \E t \in BagToSet(tasks) :
        /\ t.kind = "loop"
        /\ t.pc = "sleep"
        /\ t.failed = <<"Failed(Leg2)">>
        /\ Len(t.log) = 2
        /\ t.log[1] # t.log[2]

\* C36: shutdown on SIGINT or SIGTERM does not cut an execution in half:
\* the process does not exit while an execution has submitted leg 1 and has
\* not finished leg 2, and it exits only when the loop has finished its
\* iteration (no scan and no execution of the loop is left suspended).
C36_ShutdownCutsNoExecution ==
    exit.exited =>
        \A t \in BagToSet(exit.cut) :
            /\ ~(t.pc = "exec" /\ t.ex.pc \in {"leg1", "leg2"})
            /\ t.kind = "loop" => t.pc \notin {"dexPrice", "exec"}

\* C37: every opportunity the ledger holds after a scan has a
\* profitPercentage strictly greater than 0; a result that gains nothing or
\* loses is not stored.
C37_LedgerHoldsGainsOnly ==
    /\ \A k \in DOMAIN opportunities : opportunities[k].profitPercentage > 0
    /\ ranked.dex # 0 =>
          /\ opportunities = ranked.out
          /\ \A ni \in {3, 4}, direction \in {"cexToDex", "dexToCex"} :
                LET r == IF direction = "cexToDex"
                         THEN calculateProfit(direction, networks[ni], tradingPairs[1][1],
                                              tradingPairs[1][2], ranked.ask, ranked.dex)
                         ELSE calculateProfit(direction, networks[ni], tradingPairs[1][1],
                                              tradingPairs[1][2], ranked.dex, ranked.bid)
                IN  r.profitPercentage <= 0 =>
                        \A k \in DOMAIN opportunities : opportunities[k] # r

C37_Witness ==
    /\ ranked.dex = 102000
    /\ ranked.ask = 101184
    /\ calculateProfit("cexToDex", "polygon", "LINK", "USDT", ranked.ask, ranked.dex).profitPercentage = 0
    /\ calculateProfit("cexToDex", "polygon", "LINK", "USDT", ranked.ask, ranked.dex).estimatedProfit = 0
    /\ opportunities = << >>

\* The calls of normalizeQuantity made so far.
C38_Calls == {spreads[k] : k \in {j \in DOMAIN spreads : spreads[j].fn = "normalizeQuantity"}}

\* C38: for a symbol of the exchange info, with step size s > 0, and a
\* quantity q >= 0, normalizeQuantity returns the largest multiple of s that
\* does not exceed q (0 <= q - result < s, and 0 when q < s); normalizing
\* the result again gives the result; for a symbol that is not in the
\* exchange info it throws, and a cexToDex execution for that symbol
\* returns false with no leg submitted.
C38_NormalizeQuantityFloors ==
    /\ \A r \in C38_Calls :
          IF r.args.symbol \in DOMAIN r.args.info
          THEN LET s == r.args.info[r.args.symbol]
                   q == r.args.quantity
               IN  /\ r.out.ok
                   /\ \E n \in 0..q : r.out.value = n * s
                   /\ 0 <= q - r.out.value
                   /\ q - r.out.value < s
                   /\ q < s => r.out.value = 0
          ELSE ~r.out.ok
    /\ \A r1 \in C38_Calls, r2 \in C38_Calls :
          (r1.out.ok /\ r2.args = [r1.args EXCEPT !.quantity = r1.out.value]) => r2.out = r1.out
    /\ \A ex \in Executions :
          (ex.opp.direction = "cexToDex"
              /\ getSymbolFromPair(ex.opp.baseToken, ex.opp.quoteToken) \notin DOMAIN symbolInfo) =>
              /\ ex.calls = << >>
              /\ ex.pc = "returned"
              /\ ~ex.value
              /\ ex.path = PathFailedBeforeLeg1

C38_Witness ==
    /\ Len(spreads) = 2
    /\ spreads[1].fn = "normalizeQuantity"
    /\ spreads[1].args.symbol \in DOMAIN spreads[1].args.info
    /\ spreads[1].args.info[spreads[1].args.symbol] = 300
    /\ spreads[1].args.quantity = 1000
    /\ spreads[1].out = [ok |-> TRUE, value |-> 900]
    /\ spreads[2].fn = "normalizeQuantity"
    /\ spreads[2].args.quantity = 900
    /\ spreads[2].out = [ok |-> TRUE, value |-> 900]

====
